---- MODULE Spec2Model ----
(***************************************************************************)
(* Verification model of the news-hub-aggregator weekly pipeline:          *)
(*   - WorkspaceManager and WeeklyIntelOrchestrator (specification Spec),  *)
(*   - the synthesizers and their region validators (SpecSynth),           *)
(*   - ContentExtractor.get_text and its tiers (SpecExtract).              *)
(* Each specification drives one group of variables; the other groups stay *)
(* at their idle values.                                                   *)
(***************************************************************************)
EXTENDS Integers, Sequences, FiniteSets, TLC

VARIABLES
    fs,              \* workspace directory: file name -> stamp of the phase invocation that wrote it (0 = absent)
    existing_files,  \* WorkspaceManager.existing_files (process-local listing cache)
    jsonl,           \* article indexes present in stage_04_enriched_articles_summarized.jsonl
    pc,              \* <<unit, step>> position of the running process
    frame,           \* who called the running phase: "none", "direct", "run", "legacy"
    inv,             \* number of phase invocations begun so far (stamp source)
    procs,           \* number of processes constructed on the workspace
    faults,          \* number of injected failures (write errors, raised calls, kills)
    extCalls,        \* external calls (consolidator, extractor, title/region services, LLM) per unit
    loc,             \* locals of the phase invocation in progress
    last,            \* record of the stage invocation that ended most recently
    started,         \* phases started by the current/last run(), in start order
    results,         \* how each started phase ended: "running", "returned", "raised"
    runStatus,       \* "none", "running", "returned", "raised"
    hist             \* history of the resume scenario

orchVars == <<fs, existing_files, jsonl, pc, frame, inv, procs, faults, extCalls,
              loc, last, started, results, runStatus, hist>>

VARIABLES
    syn              \* state of one synthesizer call

VARIABLES
    ext              \* state of one ContentExtractor.get_text call

VARIABLES
    ws               \* one workspace directory and the WorkspaceManager on it

VARIABLES
    sm               \* one batch of articles going through the summarising step

VARIABLES
    etl              \* the three-step ETL of phase 2 over several process lives

VARIABLES
    tf               \* one TitleFetcher working through its records

VARIABLES
    rc               \* one RegionCategoriser.get_region call

VARIABLES
    yt               \* one YoutubeTranscriptApiHandler and the getter called on it

VARIABLES
    bs               \* run_batch_summarization and its JSONL checkpoint over several calls

VARIABLES
    rt               \* one checkpoint round trip: save, load, reconstruct

VARIABLES
    cv               \* one CSV file and the append_records calls made on it

more == <<bs, rt, cv>>

rest == <<etl, tf, rc, yt, more>>

core == <<orchVars, syn, ext, ws, sm>>

vars == <<orchVars, syn, ext, ws, sm, rest>>

----------------------------------------------------------------------------
(* Bounds *)

MaxInv == 2        \* phase invocations (direct calls and run() calls) per behaviour
MaxProcs == 2      \* processes constructed on the same workspace
MaxFaults == 1     \* injected failures per behaviour
NumArticles == 2   \* rows of the stage-3 CSV
NumRows == 3       \* rows of the group that run_batch_summarization works through
MaxSections == 4   \* "## heading" sections in one response of a single-call synthesizer
MaxBatchSections == 1  \* "## heading" sections in the response to one multi-lens batch
MaxFiles == 2      \* summary files read by the materialist generator
MaxPayload == 2    \* distinct payload bodies handed to save_checkpoint

----------------------------------------------------------------------------
(* WorkspaceManager *)

CheckpointFileName(key) == key \o ".json"

AllFiles ==
    { "p1_mainstream.json", "p1_mainstream_headlines.json",
      "p1_mainstream_narrative.json", "p1_geopolitical_ledger.json",
      "p4_materialist_analysis.json", "p5_global_briefing.json",
      "p6_multi_lens_analysis.json",
      "consolidated_mainstream_headlines_report.md", "mainstream_narrative.md",
      "global_economic_snapshot.md", "consolidated_analysis_headlines_report.md",
      "analysis_headlines.md", "materialist_analysis_report.md",
      "materialist_analysis.md", "global_briefing.md", "multi_lens_analysis.md",
      "weekly-news.md", "stage_02_enriched_articles_titles.csv",
      "stage_03_enriched_articles_regions.csv", "summaries",
      "summaries/intel_brief.md" }

\* os.listdir(workspace_dir): the direct children of the workspace directory
ListDir(disk) == { f \in AllFiles : disk[f] # 0 /\ f # "summaries/intel_brief.md" }

has_checkpoint(cache, key) == CheckpointFileName(key) \in cache

\* open(path, "w") succeeds only when the parent directory exists
ParentExists(disk, f) == f = "summaries/intel_brief.md" => disk["summaries"] # 0

\* get_file_path / os.path.exists of a workspace file
FileExists(disk, f) == disk[f] # 0

\* load_report: the text of the file, "" when it does not exist
load_report(disk, f) == disk[f]

----------------------------------------------------------------------------
(* WeeklyIntelOrchestrator: tables of the checkpointed stages *)

CheckpointedStages == {"s11", "s12", "s13", "p4", "p5", "p6"}

Units == CheckpointedStages \cup {"p2", "p3", "p7"}

\* the key each stage passes to has_checkpoint
CheckKey(s) ==
    CASE s = "s11" -> "p1_mainstream"
      [] s = "s12" -> "p1_mainstream_narrative"
      [] s = "s13" -> "p1_geopolitical_ledger"
      [] s = "p4"  -> "p4_materialist_analysis"
      [] s = "p5"  -> "p5_global_briefing"
      [] s = "p6"  -> "p6_multi_lens_analysis"

\* the key each stage passes to save_checkpoint
SaveKey(s) ==
    CASE s = "s11" -> "p1_mainstream_headlines"
      [] s = "s12" -> "p1_mainstream_narrative"
      [] s = "s13" -> "p1_geopolitical_ledger"
      [] s = "p4"  -> "p4_materialist_analysis"
      [] s = "p5"  -> "p5_global_briefing"
      [] s = "p6"  -> "p6_multi_lens_analysis"

\* the file name of the report artifact each stage saves
ReportFile(s) ==
    CASE s = "s11" -> "consolidated_mainstream_headlines_report.md"
      [] s = "s12" -> "mainstream_narrative.md"
      [] s = "s13" -> "global_economic_snapshot.md"
      [] s = "p4"  -> "materialist_analysis_report.md"
      [] s = "p5"  -> "global_briefing.md"
      [] s = "p6"  -> "multi_lens_analysis.md"

PhaseOf(u) ==
    CASE u \in {"s11", "s12", "s13"} -> 1
      [] u = "p2" -> 2
      [] u = "p3" -> 3
      [] u = "p4" -> 4
      [] u = "p5" -> 5
      [] u = "p6" -> 6
      [] u = "p7" -> 7

\* first step of each run_phase_k method
PhaseEntry(k) ==
    CASE k = 1 -> <<"s11", "check">>
      [] k = 2 -> <<"p2", "links">>
      [] k = 3 -> <<"p3", "check">>
      [] k = 4 -> <<"p4", "check">>
      [] k = 5 -> <<"p5", "check">>
      [] k = 6 -> <<"p6", "check">>
      [] k = 7 -> <<"p7", "assemble">>

\* the phase calls that WeeklyIntelOrchestrator.run() makes (2..7 are commented out)
RunPhases == <<1>>

\* the phase calls that the legacy Orchestrator.run() makes
LegacyRunPhases == <<1, 2, 3, 4, 5, 6, 7>>

Idle == <<"none", "idle">>
Dead == <<"none", "dead">>

NoLoc == [found |-> FALSE, worked |-> FALSE, ckptTried |-> FALSE,
          reportTried |-> FALSE, noInput |-> FALSE, msBound |-> FALSE, i |-> 1]

NoLast == [stage |-> "none", how |-> "none", found |-> FALSE, worked |-> FALSE,
           ckptTried |-> FALSE, reportTried |-> FALSE, noInput |-> FALSE, inv |-> 0]

NoHist == [p2done |-> FALSE, p3done |-> FALSE, p3cut |-> FALSE, rerun |-> FALSE,
           callsAtRerun |-> 0]

\* stamp of a file that was in the workspace directory before the first process
PreExisting == -1

\* external calls made so far on behalf of phases 1 and 2
CallsOfPhases12(c) == c["s11"] + c["s12"] + c["s13"] + c["p2"]

----------------------------------------------------------------------------
(* Process life cycle *)

InitOrch ==
    /\ \E summ, old \in BOOLEAN :
          fs = [f \in AllFiles |->
                   IF \/ f = "summaries" /\ summ
                      \/ f = "p1_mainstream.json" /\ old
                   THEN PreExisting ELSE 0]
    /\ existing_files = ListDir(fs)
    /\ jsonl = {}
    /\ pc = Idle
    /\ frame = "none"
    /\ inv = 0
    /\ procs = 1
    /\ faults = 0
    /\ extCalls = [u \in Units |-> 0]
    /\ loc = NoLoc
    /\ last = NoLast
    /\ started = <<>>
    /\ results = <<>>
    /\ runStatus = "none"
    /\ hist = NoHist

IdleOrch ==
    /\ fs = [f \in AllFiles |-> 0]
    /\ existing_files = {}
    /\ jsonl = {}
    /\ pc = Dead
    /\ frame = "none"
    /\ inv = 0
    /\ procs = 0
    /\ faults = 0
    /\ extCalls = [u \in Units |-> 0]
    /\ loc = NoLoc
    /\ last = NoLast
    /\ started = <<>>
    /\ results = <<>>
    /\ runStatus = "none"
    /\ hist = NoHist

\* the process is killed (or exits) at any point
Terminate ==
    /\ pc # Dead
    /\ procs >= 1
    /\ procs < MaxProcs
    /\ pc' = Dead
    /\ frame' = "none"
    /\ hist' = [hist EXCEPT !.p3cut = @ \/ (hist.p2done /\ ~hist.p3done)]
    /\ UNCHANGED <<fs, existing_files, jsonl, inv, procs, faults, extCalls, loc,
                   last, started, results, runStatus, syn, ext, ws, sm, rest>>

\* WeeklyIntelOrchestrator.__init__ -> WorkspaceManager.__init__ in a new process
Construct ==
    /\ pc = Dead
    /\ procs >= 1
    /\ procs < MaxProcs
    /\ procs' = procs + 1
    /\ existing_files' = ListDir(fs)
    /\ pc' = Idle
    /\ frame' = "none"
    /\ loc' = NoLoc
    /\ started' = <<>>
    /\ results' = <<>>
    /\ runStatus' = "none"
    /\ UNCHANGED <<fs, jsonl, inv, faults, extCalls, last, hist, syn, ext, ws, sm, rest>>

----------------------------------------------------------------------------
(* run() and direct calls of the phase methods *)

\* a caller invokes run_phase_k directly
CallPhase(k) ==
    /\ pc = Idle
    /\ inv < MaxInv
    /\ inv' = inv + 1
    /\ frame' = "direct"
    /\ pc' = PhaseEntry(k)
    /\ loc' = NoLoc
    /\ UNCHANGED <<fs, existing_files, jsonl, procs, faults, extCalls, last,
                   started, results, runStatus, hist, syn, ext, ws, sm, rest>>

\* WeeklyIntelOrchestrator.run() is entered
CallRun ==
    /\ pc = Idle
    /\ inv + Len(RunPhases) <= MaxInv
    /\ frame' = "run"
    /\ runStatus' = "running"
    /\ started' = <<>>
    /\ results' = <<>>
    /\ pc' = <<"run", "next">>
    /\ hist' = IF hist.p3cut /\ ~hist.rerun
                THEN [hist EXCEPT !.rerun = TRUE, !.p3done = FALSE,
                                  !.callsAtRerun = CallsOfPhases12(extCalls)]
                ELSE hist
    /\ UNCHANGED <<fs, existing_files, jsonl, inv, procs, faults, extCalls, loc,
                   last, syn, ext, ws, sm, rest>>

\* what run() does when the phase it called raised: "raise" re-raises, "continue" goes on
RunOnRaiseSwallow == "continue"

RunOnRaise == "raise"

\* run() reaches its next statement: the next phase call, or the final log line
RunNext ==
    /\ pc = <<"run", "next">>
    /\ LET i == Len(started) + 1 IN
         IF i > Len(RunPhases)
         THEN /\ runStatus' = "returned"
              /\ pc' = Idle
              /\ frame' = "none"
              /\ UNCHANGED <<started, results, inv, loc>>
         ELSE /\ started' = Append(started, RunPhases[i])
              /\ results' = Append(results, "running")
              /\ inv' = inv + 1
              /\ pc' = PhaseEntry(RunPhases[i])
              /\ loc' = NoLoc
              /\ UNCHANGED <<runStatus, frame>>
    /\ UNCHANGED <<fs, existing_files, jsonl, procs, faults, extCalls, last, hist,
                   syn, ext, ws, sm, rest>>

\* a phase method returns normally to its caller
PhaseReturn ==
    /\ pc = <<"ret", "phase">>
    /\ IF frame = "run"
       THEN /\ results' = [results EXCEPT ![Len(results)] = "returned"]
            /\ pc' = <<"run", "next">>
            /\ UNCHANGED frame
       ELSE /\ pc' = Idle
            /\ frame' = "none"
            /\ UNCHANGED results
    /\ UNCHANGED <<fs, existing_files, jsonl, inv, procs, faults, extCalls, loc,
                   last, started, runStatus, hist, syn, ext, ws, sm, rest>>

\* an exception leaves a phase method
PhaseRaise ==
    /\ pc = <<"exc", "phase">>
    /\ IF frame = "run"
       THEN /\ results' = [results EXCEPT ![Len(results)] = "raised"]
            /\ IF RunOnRaise = "raise"
               THEN /\ runStatus' = "raised"
                    /\ pc' = Idle
                    /\ frame' = "none"
               ELSE /\ pc' = <<"run", "next">>
                    /\ UNCHANGED <<runStatus, frame>>
       ELSE /\ pc' = Idle
            /\ frame' = "none"
            /\ UNCHANGED <<results, runStatus>>
    /\ UNCHANGED <<fs, existing_files, jsonl, inv, procs, faults, extCalls, loc,
                   last, started, hist, syn, ext, ws, sm, rest>>

\* the legacy Orchestrator.run() is entered
CallLegacyRun ==
    /\ pc = Idle
    /\ inv < MaxInv
    /\ inv' = inv + 1
    /\ frame' = "legacy"
    /\ runStatus' = "running"
    /\ started' = <<>>
    /\ results' = <<>>
    /\ pc' = <<"legacy", "next">>
    /\ UNCHANGED <<fs, existing_files, jsonl, procs, faults, extCalls, loc,
                   last, hist, syn, ext, ws, sm, rest>>

\* the legacy run() reaches its next phase call, or its end
LegacyNext ==
    /\ pc = <<"legacy", "next">>
    /\ LET i == Len(started) + 1 IN
         IF i > Len(LegacyRunPhases)
         THEN /\ runStatus' = "returned"
              /\ pc' = Idle
              /\ frame' = "none"
              /\ UNCHANGED <<started, results>>
         ELSE /\ started' = Append(started, LegacyRunPhases[i])
              /\ results' = Append(results, "running")
              /\ pc' = <<"legacy", "body">>
              /\ UNCHANGED <<runStatus, frame>>
    /\ UNCHANGED <<fs, existing_files, jsonl, inv, procs, faults, extCalls, loc,
                   last, hist, syn, ext, ws, sm, rest>>

\* a legacy phase method: logs its start and end, and returns
LegacyPhaseBody ==
    /\ pc = <<"legacy", "body">>
    /\ results' = [results EXCEPT ![Len(results)] = "returned"]
    /\ pc' = <<"legacy", "next">>
    /\ UNCHANGED <<fs, existing_files, jsonl, inv, procs, faults, extCalls, loc,
                   last, started, runStatus, frame, hist, syn, ext, ws, sm, rest>>

----------------------------------------------------------------------------
(* The checkpointed stages 1.1, 1.2, 1.3, 4, 5, 6 *)

\* record of a stage invocation that ends
EndRecord(s, how) ==
    [stage |-> s, how |-> how, found |-> loc.found, worked |-> loc.worked,
     ckptTried |-> loc.ckptTried, reportTried |-> loc.reportTried,
     noInput |-> loc.noInput, inv |-> inv]

\* if self.workspace.has_checkpoint(KEY): [SKIP] ... else: do the work
StageCheck(s) ==
    /\ pc = <<s, "check">>
    /\ IF has_checkpoint(existing_files, CheckKey(s))
       THEN /\ loc' = [loc EXCEPT !.found = TRUE]
            /\ pc' = IF s \in {"p5", "p6"} THEN <<s, "reload">> ELSE <<s, "end">>
       ELSE /\ pc' = <<s, "input">>
            /\ UNCHANGED loc
    /\ UNCHANGED <<fs, existing_files, jsonl, frame, inv, procs, faults, extCalls,
                   last, started, results, runStatus, hist, syn, ext, ws, sm, rest>>

\* phases 5 and 6, checkpoint found: load_checkpoint_json and re-hydrate, then return
StageReload(s) ==
    /\ s \in {"p5", "p6"}
    /\ pc = <<s, "reload">>
    /\ pc' = <<s, "end">>
    /\ UNCHANGED <<fs, existing_files, jsonl, frame, inv, procs, faults, extCalls,
                   loc, last, started, results, runStatus, hist, syn, ext, ws, sm, rest>>

\* the input of a stage is usable: 1.2 needs the text of the 1.1 report,
\* phase 4 needs the summaries folder, phases 5 and 6 only warn
InputPresent(s, disk) ==
    CASE s = "s12" -> load_report(disk, ReportFile("s11")) # 0
      [] s = "p4"  -> FileExists(disk, "summaries")
      [] OTHER     -> TRUE

\* the stage reads its inputs: 1.2 reads ms_report_filename, which is bound only
\* in the else-branch of 1.1
StageInput(s) ==
    /\ pc = <<s, "input">>
    /\ IF s = "s12" /\ ~loc.msBound
       THEN /\ pc' = <<"exc", "phase">>
            /\ last' = EndRecord(s, "raised")
            /\ UNCHANGED loc
       ELSE IF InputPresent(s, fs)
            THEN /\ pc' = <<s, "work">>
                 /\ UNCHANGED <<loc, last>>
            ELSE /\ loc' = [loc EXCEPT !.noInput = TRUE]
                 /\ pc' = <<s, "end">>
                 /\ UNCHANGED last
    /\ UNCHANGED <<fs, existing_files, jsonl, frame, inv, procs, faults, extCalls,
                   started, results, runStatus, hist, syn, ext, ws, sm, rest>>

\* external calls one execution of the stage's work makes: the materialist
\* generator queries the LLM once per summary file, the others always call out
WorkCalls(s, disk) ==
    IF s = "p4" /\ ~FileExists(disk, "summaries/intel_brief.md") THEN 0 ELSE 1

\* where a stage goes after its work returned
AfterWorkNoSave(s) == <<s, "end">>

AfterWork(s) == <<s, "save_ckpt">>

\* consolidate() / synthesize() / generate(): only the consolidator of 1.1 is
\* called outside a try block that swallows every exception
StageWork(s) ==
    /\ pc = <<s, "work">>
    /\ extCalls' = [extCalls EXCEPT ![s] = @ + WorkCalls(s, fs)]
    /\ \/ /\ loc' = [loc EXCEPT !.worked = TRUE]
          /\ pc' = AfterWork(s)
          /\ UNCHANGED <<faults, last>>
       \/ /\ s = "s11"
          /\ faults < MaxFaults
          /\ faults' = faults + 1
          /\ loc' = [loc EXCEPT !.worked = TRUE]
          /\ last' = EndRecord(s, "raised")
          /\ pc' = <<"exc", "phase">>
    /\ UNCHANGED <<fs, existing_files, jsonl, frame, inv, procs, started, results,
                   runStatus, hist, syn, ext, ws, sm, rest>>

\* WorkspaceManager.save_checkpoint / save_report: write the file and add it to the
\* cache, or log the error and change nothing
WriteFile(f, ok) ==
    IF ok /\ ParentExists(fs, f)
    THEN /\ fs' = [fs EXCEPT ![f] = inv]
         /\ existing_files' = existing_files \cup {f}
         /\ UNCHANGED faults
    ELSE /\ UNCHANGED <<fs, existing_files>>
         /\ faults' = IF ok THEN faults ELSE faults + 1

\* self.workspace.save_checkpoint(KEY, data)
StageSaveCheckpoint(s) ==
    /\ pc = <<s, "save_ckpt">>
    /\ \E ok \in BOOLEAN :
          /\ (~ok => faults < MaxFaults)
          /\ WriteFile(CheckpointFileName(SaveKey(s)), ok)
    /\ loc' = [loc EXCEPT !.ckptTried = TRUE]
    /\ pc' = <<s, "save_report">>
    /\ UNCHANGED <<jsonl, frame, inv, procs, extCalls, last, started, results,
                   runStatus, hist, syn, ext, ws, sm, rest>>

\* artifact = builder.build_..._report(data); self.workspace.save_report(...)
StageSaveReport(s) ==
    /\ pc = <<s, "save_report">>
    /\ \E ok \in BOOLEAN :
          /\ (~ok => faults < MaxFaults)
          /\ WriteFile(ReportFile(s), ok)
    /\ loc' = [loc EXCEPT !.reportTried = TRUE,
                          !.msBound = IF s = "s11" THEN TRUE ELSE @]
    /\ pc' = <<s, "end">>
    /\ UNCHANGED <<jsonl, frame, inv, procs, extCalls, last, started, results,
                   runStatus, hist, syn, ext, ws, sm, rest>>

\* the statement after a stage: the next step of phase 1, or the phase's return
AfterStage(s) ==
    CASE s = "s11" -> <<"s12", "check">>
      [] s = "s12" -> <<"s13", "check">>
      [] OTHER     -> <<"ret", "phase">>

\* the stage is over without an exception
StageEnd(s) ==
    /\ pc = <<s, "end">>
    /\ last' = EndRecord(s, "returned")
    /\ loc' = [NoLoc EXCEPT !.msBound = loc.msBound]
    /\ pc' = AfterStage(s)
    /\ UNCHANGED <<fs, existing_files, jsonl, frame, inv, procs, faults, extCalls,
                   started, results, runStatus, hist, syn, ext, ws, sm, rest>>

----------------------------------------------------------------------------
(* Phase 2 (news ETL), phase 3 (batch summarization), phase 7 (final assembly) *)

\* AnalysisETLService.run_etl step 1: collect the links; no links ends the ETL
P2Links ==
    /\ pc = <<"p2", "links">>
    /\ extCalls' = [extCalls EXCEPT !["p2"] = @ + 1]
    /\ \/ pc' = <<"p2", "titles">>
       \/ pc' = <<"ret", "phase">>
    /\ UNCHANGED <<fs, existing_files, jsonl, frame, inv, procs, faults, loc, last,
                   started, results, runStatus, hist, syn, ext, ws, sm, rest>>

\* run_etl step 2: fetch the titles and write the stage-2 CSV
P2Titles ==
    /\ pc = <<"p2", "titles">>
    /\ extCalls' = [extCalls EXCEPT !["p2"] = @ + 1]
    /\ fs' = [fs EXCEPT !["stage_02_enriched_articles_titles.csv"] = inv]
    /\ pc' = <<"p2", "regions">>
    /\ UNCHANGED <<existing_files, jsonl, frame, inv, procs, faults, loc, last,
                   started, results, runStatus, hist, syn, ext, ws, sm, rest>>

\* run_etl step 3: categorise every row and write the stage-3 CSV
P2Regions ==
    /\ pc = <<"p2", "regions">>
    /\ extCalls' = [extCalls EXCEPT !["p2"] = @ + 1]
    /\ fs' = [fs EXCEPT !["stage_03_enriched_articles_regions.csv"] = inv]
    /\ pc' = <<"p2", "report">>
    /\ UNCHANGED <<existing_files, jsonl, frame, inv, procs, faults, loc, last,
                   started, results, runStatus, hist, syn, ext, ws, sm, rest>>

\* phase 2.2: consolidate the CSV and save the analysis-headlines report
P2Report ==
    /\ pc = <<"p2", "report">>
    /\ \E ok \in BOOLEAN :
          /\ (~ok => faults < MaxFaults)
          /\ WriteFile("consolidated_analysis_headlines_report.md", ok)
          /\ hist' = [hist EXCEPT !.p2done = @ \/ ok]
    /\ pc' = <<"ret", "phase">>
    /\ UNCHANGED <<jsonl, frame, inv, procs, extCalls, loc, last, started, results,
                   runStatus, syn, ext, ws, sm, rest>>

\* phase 3: the stage-3 CSV must exist, else the phase returns with a warning
P3Check ==
    /\ pc = <<"p3", "check">>
    /\ pc' = IF FileExists(fs, "stage_03_enriched_articles_regions.csv")
             THEN <<"p3", "batch">> ELSE <<"ret", "phase">>
    /\ UNCHANGED <<fs, existing_files, jsonl, frame, inv, procs, faults, extCalls,
                   loc, last, started, results, runStatus, hist, syn, ext, ws, sm, rest>>

\* run_batch_summarization, one row: a cached URL is skipped, any other URL is
\* extracted, summarised and appended to the JSONL checkpoint
P3Article ==
    /\ pc = <<"p3", "batch">>
    /\ loc.i <= NumArticles
    /\ IF loc.i \in jsonl
       THEN UNCHANGED <<jsonl, extCalls>>
       ELSE /\ jsonl' = jsonl \cup {loc.i}
            /\ extCalls' = [extCalls EXCEPT !["p3"] = @ + 1]
    /\ loc' = [loc EXCEPT !.i = @ + 1]
    /\ UNCHANGED <<fs, existing_files, pc, frame, inv, procs, faults, last, started,
                   results, runStatus, hist, syn, ext, ws, sm, rest>>

\* phase 3 saves the group reports under summaries/ and returns
P3Save ==
    /\ pc = <<"p3", "batch">>
    /\ loc.i > NumArticles
    /\ \E ok \in BOOLEAN :
          /\ (~ok => faults < MaxFaults)
          /\ WriteFile("summaries/intel_brief.md", ok)
    /\ hist' = [hist EXCEPT !.p3done = TRUE]
    /\ pc' = <<"ret", "phase">>
    /\ UNCHANGED <<jsonl, frame, inv, procs, extCalls, loc, last, started, results,
                   runStatus, syn, ext, ws, sm, rest>>

\* phase 7: both checkpoints and the stage-3 CSV must load, else ValueError
P7Assemble ==
    /\ pc = <<"p7", "assemble">>
    /\ IF /\ FileExists(fs, CheckpointFileName("p5_global_briefing"))
          /\ FileExists(fs, CheckpointFileName("p6_multi_lens_analysis"))
          /\ FileExists(fs, "stage_03_enriched_articles_regions.csv")
       THEN /\ \E ok \in BOOLEAN :
                  /\ (~ok => faults < MaxFaults)
                  /\ WriteFile("weekly-news.md", ok)
            /\ pc' = <<"ret", "phase">>
       ELSE /\ pc' = <<"exc", "phase">>
            /\ UNCHANGED <<fs, existing_files, faults>>
    /\ UNCHANGED <<jsonl, frame, inv, procs, extCalls, loc, last, started, results,
                   runStatus, hist, syn, ext, ws, sm, rest>>

----------------------------------------------------------------------------
(* Synthesizers and region validators *)

\* global_briefing_synthesizer.REQUIRED_REGIONS = multi_lens_synthesizer.REQUIRED_REGIONS
REQUIRED_REGIONS ==
    << "Global", "China", "East Asia", "Singapore", "Southeast Asia", "South Asia",
       "Central Asia", "Russia", "West Asia (Middle East)", "Africa", "Europe",
       "Latin America & Caribbean", "North America", "Oceania" >>

\* mainstream_news_synthesizer.REQUIRED_REGIONS (14 core regions + Unknown)
MAINSTREAM_REQUIRED_REGIONS == REQUIRED_REGIONS \o << "Unknown" >>

\* chunk size of the multi-lens batches
BATCH_SIZE == 5

\* minimum length of mainstream_content for which the LLM is queried
MAINSTREAM_MIN_INPUT == 50

Range(q) == { q[i] : i \in 1..Len(q) }

Min(a, b) == IF a < b THEN a ELSE b

\* sequences over S of length 0..n
SeqUpTo(S, n) == UNION { [1..k -> S] : k \in 0..n }

\* the sections of a response: the heading h after "## " and the block c below it
\* ("" is a block in which the stage's parser finds no content)
SectionHeadings == { "Global", "Russia", "Unknown", "Atlantis" }

Sections ==
    { [h |-> hd, c |-> ct] : hd \in SectionHeadings, ct \in {"", "gen1"} }
        \cup { [h |-> "Global", c |-> "gen2"] }

\* MainstreamNewsSynthesizer._parse_llm_output: a section with empty content is dropped
ParseMainstream(text) ==
    LET keep(x) == x.h # "" /\ x.c # ""
        kept == SelectSeq(text, keep)
    IN  [i \in 1..Len(kept) |-> [region |-> kept[i].h, body |-> kept[i].c]]

\* GlobalBriefingSynthesizer._parse_llm_output: every section becomes an entry, the
\* sub-sections not found are replaced by "_No ... extracted._"
ParseGlobal(text) ==
    [i \in 1..Len(text) |->
        [region |-> text[i].h,
         body |-> IF text[i].c = "" THEN "not_extracted" ELSE text[i].c]]

\* MultiLensSynthesizer._parse_batch_output: a section without lenses is dropped
ParseBatch(text) ==
    LET keep(x) == x.c # ""
        kept == SelectSeq(text, keep)
    IN  [i \in 1..Len(kept) |-> [region |-> kept[i].h, body |-> kept[i].c]]

\* a map in which the first entry of a region wins
FirstIndexOf(entries, r) ==
    CHOOSE i \in 1..Len(entries) :
        /\ entries[i].region = r
        /\ \A j \in 1..(i - 1) : entries[j].region # r

\* existing_map = {e.region: e for e in entries}: the last entry of a region wins
LastIndexOf(entries, r) ==
    CHOOSE i \in 1..Len(entries) :
        /\ entries[i].region = r
        /\ \A j \in (i + 1)..Len(entries) : entries[j].region # r

ExistingMap(entries) ==
    [r \in { e.region : e \in Range(entries) } |-> entries[LastIndexOf(entries, r)]]

\* a variant that returns the parsed entries first and the placeholders after them
ValidateAndFillAppend(entries, required, placeholder) ==
    LET missing == SelectSeq(required, LAMBDA r : r \notin DOMAIN ExistingMap(entries))
    IN  entries \o [i \in 1..Len(missing) |-> [region |-> missing[i], body |-> placeholder]]

\* _validate_and_fill_regions: one entry per required region, in the required order
ValidateAndFill(entries, required, placeholder) ==
    LET existing_map == ExistingMap(entries)
    IN  [i \in 1..Len(required) |->
            IF required[i] \in DOMAIN existing_map
            THEN existing_map[required[i]]
            ELSE [region |-> required[i], body |-> placeholder]]

\* MainstreamNewsSynthesizer._create_empty_entries
CreateEmptyEntries ==
    [i \in 1..Len(MAINSTREAM_REQUIRED_REGIONS) |->
        [region |-> MAINSTREAM_REQUIRED_REGIONS[i], body |-> "processing_error"]]

\* MultiLensSynthesizer._chunk_list
ChunkList(data, size) ==
    [b \in 1..((Len(data) + size - 1) \div size) |->
        SubSeq(data, (b - 1) * size + 1, Min(b * size, Len(data)))]

Keys(entries) == [i \in 1..Len(entries) |-> entries[i].region]

SynStages == {"mainstream", "global", "multilens", "materialist"}

SynStart(st, n, fl) ==
    [pc |-> "start", stage |-> st, inputLen |-> n, files |-> fl, batch |-> 1,
     final |-> <<>>, outcomes |-> <<>>, got |-> <<>>, parsed |-> <<>>, validated |-> FALSE,
     out |-> <<>>]

InitSyn ==
    \E st \in SynStages :
        \/ /\ st = "mainstream"
           /\ \E n \in {0, MAINSTREAM_MIN_INPUT - 1, MAINSTREAM_MIN_INPUT} :
                 syn = SynStart(st, n, <<>>)
        \/ /\ st \in {"global", "multilens"}
           /\ syn = SynStart(st, 0, <<>>)
        \/ /\ st = "materialist"
           /\ \E fl \in SeqUpTo({"Global", "Russia"}, MaxFiles) :
                 syn = SynStart(st, 0, fl)

\* MainstreamNewsSynthesizer.synthesize
SynthesizeMainstream ==
    /\ syn.pc = "start" /\ syn.stage = "mainstream"
    /\ IF syn.inputLen < MAINSTREAM_MIN_INPUT
       THEN syn' = [syn EXCEPT !.pc = "done", !.out = CreateEmptyEntries]
       ELSE \/ \E text \in SeqUpTo(Sections, MaxSections) :
                 syn' = [syn EXCEPT !.pc = "done",
                            !.outcomes = <<"ok">>,
                            !.parsed = ParseMainstream(text),
                            !.validated = TRUE,
                            !.out = ValidateAndFill(ParseMainstream(text),
                                        MAINSTREAM_REQUIRED_REGIONS, "no_reporting")]
            \/ syn' = [syn EXCEPT !.pc = "done", !.outcomes = <<"raise">>,
                                  !.out = CreateEmptyEntries]
    /\ UNCHANGED <<orchVars, ext, ws, sm, rest>>

\* what GlobalBriefingSynthesizer.synthesize returns from its except branch
GlobalEntriesOnError == <<>>

\* GlobalBriefingSynthesizer.synthesize
SynthesizeGlobal ==
    /\ syn.pc = "start" /\ syn.stage = "global"
    /\ \/ \E text \in SeqUpTo(Sections, MaxSections) :
             syn' = [syn EXCEPT !.pc = "done",
                        !.outcomes = <<"ok">>,
                        !.parsed = ParseGlobal(text),
                        !.validated = TRUE,
                        !.out = ValidateAndFill(ParseGlobal(text), REQUIRED_REGIONS,
                                                "no_intelligence")]
       \/ syn' = [syn EXCEPT !.pc = "done", !.outcomes = <<"raise">>,
                             !.out = GlobalEntriesOnError]
    /\ UNCHANGED <<orchVars, ext, ws, sm, rest>>

\* final_entries after the except branch of a batch in the variant that starts over
FinalAfterBatchErrorReset(final) == <<>>

\* final_entries after the except branch of a batch: the error is only logged
FinalAfterBatchError(final) == final

\* MultiLensSynthesizer.synthesize, one iteration of the batch loop
MultiLensBatch ==
    /\ syn.pc = "start" /\ syn.stage = "multilens"
    /\ syn.batch <= Len(ChunkList(REQUIRED_REGIONS, BATCH_SIZE))
    /\ \/ \E text \in SeqUpTo(Sections, MaxBatchSections) :
             syn' = [syn EXCEPT !.batch = @ + 1,
                        !.outcomes = Append(@, "ok"),
                        !.got = Append(@, ParseBatch(text)),
                        !.final = @ \o ParseBatch(text)]
       \/ syn' = [syn EXCEPT !.batch = @ + 1,
                             !.outcomes = Append(@, "raise"),
                             !.got = Append(@, <<>>),
                             !.final = FinalAfterBatchError(@)]
    /\ UNCHANGED <<orchVars, ext, ws, sm, rest>>

\* MultiLensSynthesizer.synthesize, after the loop: validate, fill and return
MultiLensValidate ==
    /\ syn.pc = "start" /\ syn.stage = "multilens"
    /\ syn.batch > Len(ChunkList(REQUIRED_REGIONS, BATCH_SIZE))
    /\ syn' = [syn EXCEPT !.pc = "done",
                          !.parsed = syn.final,
                          !.validated = TRUE,
                          !.out = ValidateAndFill(syn.final, REQUIRED_REGIONS,
                                                  "system_error")]
    /\ UNCHANGED <<orchVars, ext, ws, sm, rest>>

\* MaterialistAnalysisGenerator.generate, one iteration of the file loop: the entry
\* is appended when the LLM call returns, the file is skipped when it raises
MaterialistFile ==
    /\ syn.pc = "start" /\ syn.stage = "materialist"
    /\ syn.batch <= Len(syn.files)
    /\ \/ syn' = [syn EXCEPT !.batch = @ + 1,
                             !.outcomes = Append(@, "ok"),
                             !.final = Append(@, [region |-> syn.files[syn.batch],
                                                  body |-> "gen1"])]
       \/ syn' = [syn EXCEPT !.batch = @ + 1,
                             !.outcomes = Append(@, "raise")]
    /\ UNCHANGED <<orchVars, ext, ws, sm, rest>>

\* MaterialistAnalysisGenerator.generate, after the loop (or with no file at all)
MaterialistReturn ==
    /\ syn.pc = "start" /\ syn.stage = "materialist"
    /\ syn.batch > Len(syn.files)
    /\ syn' = [syn EXCEPT !.pc = "done", !.out = syn.final]
    /\ UNCHANGED <<orchVars, ext, ws, sm, rest>>

NextSynth ==
    \/ SynthesizeMainstream
    \/ SynthesizeGlobal
    \/ MultiLensBatch
    \/ MultiLensValidate
    \/ MaterialistFile
    \/ MaterialistReturn

----------------------------------------------------------------------------
(* ContentExtractor *)

\* ContentExtractor.__init__: self.max_retries
max_retries == 1

\* modules/content_summarizer.py: MINIMUM_CONTENT_LENGTH
MINIMUM_CONTENT_LENGTH == 150

\* the strings and the other values get_text can hand back; a text is known by the
\* tier that produced it and by its length
Str(t, n) == [kind |-> "str", tier |-> t, len |-> n]
EmptyStr == [kind |-> "str", tier |-> "", len |-> 0]
None == [kind |-> "None", tier |-> "", len |-> 0]
TypeError == [kind |-> "TypeError", tier |-> "", len |-> 0]
Unset == [kind |-> "unset", tier |-> "", len |-> 0]

\* Python truthiness of a str-or-None value
Falsy(v) == v.kind = "None" \/ (v.kind = "str" /\ v.len = 0)

\* ContentExtractor.__init__: self.retry_delays (seconds)
retry_delays == << 2 >>

\* what one attempt of a tier meets:
\*   disabled   TranscriptsDisabled / NoTranscriptFound
\*   error      any other exception inside the try block
\*   init_fail  _init_driver raises WebDriverException (no driver to quit)
\*   empty      the call succeeds with text that is empty after cleaning
\*   short      the call succeeds with MINIMUM_CONTENT_LENGTH - 1 characters
\*   adequate   the call succeeds with MINIMUM_CONTENT_LENGTH characters
ApiOutcomes == {"disabled", "error", "empty", "short", "adequate"}
BrowserOutcomes == {"init_fail", "error", "empty", "short", "adequate"}

TextLen(o) ==
    CASE o = "short" -> MINIMUM_CONTENT_LENGTH - 1
      [] o = "adequate" -> MINIMUM_CONTENT_LENGTH
      [] OTHER -> 0

\* urlparse(url).hostname and _get_video_id(url), by family of URL
UrlKinds == {"video", "video_noid", "webpage", "nohost"}
HostnameIsNone(k) == k = "nohost"
IsYoutube(k) == k \in {"video", "video_noid"}
HasVideoId(k) == k = "video"

Attempts == 1..(max_retries + 1)
NoEnv == [a \in Attempts |-> "error"]

ExtStart(k, ea, et, ew) ==
    [pc |-> "start", url |-> k, api |-> ea, tactiq |-> et, web |-> ew,
     attempt |-> 0, tries |-> [api |-> 0, tactiq |-> 0, web |-> 0],
     sleeps |-> [api |-> <<>>, tactiq |-> <<>>, web |-> <<>>],
     opened |-> 0, quit |-> 0, live |-> {}, used |-> <<>>, result |-> Unset]

InitExt ==
    \E k \in UrlKinds :
        \/ /\ k = "video"
           /\ \E ea \in [Attempts -> ApiOutcomes], et \in [Attempts -> BrowserOutcomes] :
                 ext = ExtStart(k, ea, et, NoEnv)
        \/ /\ k = "video_noid"
           /\ \E et \in [Attempts -> BrowserOutcomes] : ext = ExtStart(k, NoEnv, et, NoEnv)
        \/ /\ k = "webpage"
           /\ \E ew \in [Attempts -> BrowserOutcomes] : ext = ExtStart(k, NoEnv, NoEnv, ew)
        \/ /\ k = "nohost"
           /\ ext = ExtStart(k, NoEnv, NoEnv, NoEnv)

\* get_text after _extract_transcript_youtube_api returned content
AfterApi(e, content) ==
    IF Falsy(content)
    THEN [e EXCEPT !.pc = "tactiq", !.attempt = 0]
    ELSE [e EXCEPT !.pc = "done", !.result = content]

\* get_text: the router, up to the first tier's loop
\* a router that knows no video family
RouteStepPagesOnly(e) ==
    IF HostnameIsNone(e.url)
       THEN [e EXCEPT !.pc = "done", !.result = TypeError]
    ELSE [e EXCEPT !.pc = "web", !.attempt = 0]

RouteStep(e) ==
    IF HostnameIsNone(e.url)
       THEN [e EXCEPT !.pc = "done", !.result = TypeError]
    ELSE IF IsYoutube(e.url)
       THEN IF HasVideoId(e.url)
            THEN [e EXCEPT !.pc = "api", !.attempt = 0]
            ELSE AfterApi(e, EmptyStr)
    ELSE [e EXCEPT !.pc = "web", !.attempt = 0]

GetText ==
    /\ ext.pc = "start"
    /\ ext' = RouteStep(ext)
    /\ UNCHANGED <<orchVars, syn, ws, sm, rest>>

\* a loop in which no failed attempt is followed by a sleep
BackoffDueNever(attempt) == FALSE

\* "if attempt < self.max_retries: time.sleep(self.retry_delays[attempt])"
BackoffDue(attempt) == attempt < max_retries

\* the end of a loop iteration whose attempt failed: sleep when due, then the loop
\* variable moves on
AfterFailedAttempt(e, tier) ==
    LET slept == IF BackoffDue(e.attempt)
                 THEN [e EXCEPT !.sleeps[tier] = Append(@, retry_delays[e.attempt + 1])]
                 ELSE e
    IN  [slept EXCEPT !.attempt = @ + 1]

\* "for attempt in range(self.max_retries + 1)" has another iteration to run
InRange(e) == e.attempt < max_retries + 1

\* a handler that treats the deterministic errors like any other exception
ApiRetryableAll == {"error", "disabled"}

\* the outcomes handled by "except Exception" (retry allowed); the others are
\* handled by "except (TranscriptsDisabled, NoTranscriptFound)" (fail fast)
ApiRetryable == {"error"}

\* _extract_transcript_youtube_api: one iteration of the attempt loop
ApiStep(x) ==
    LET o == x.api[x.attempt + 1]
        e == [x EXCEPT !.tries.api = @ + 1]
    IN  IF o \in {"empty", "short", "adequate"}
        THEN AfterApi(e, Str(IF o = "empty" THEN "" ELSE "api", TextLen(o)))
        ELSE IF o \in ApiRetryable
        THEN LET n == AfterFailedAttempt(e, "api")
             IN  IF InRange(n) THEN n ELSE AfterApi(n, None)
        ELSE AfterApi(e, EmptyStr)

ApiAttempt ==
    /\ ext.pc = "api"
    /\ ext' = ApiStep(ext)
    /\ UNCHANGED <<orchVars, syn, ws, sm, rest>>

\* the value a browser tier returns when its loop ends without a return
TactiqExhausted == EmptyStr
WebExhausted == None

\* a loop whose driver.quit() is skipped when the try block returns
QuitReachedUnlessReturned(o) == o \notin {"short", "adequate"}

\* "finally: if driver: driver.quit()" is reached whatever the try block did
QuitReached(o) == TRUE

\* one iteration of the attempt loop of a browser tier: _init_driver() gives the
\* attempt a new session (none when it raises), the finally block quits it
BrowserStep(x, tier, env, exhausted) ==
    LET o == env[x.attempt + 1]
        drv == IF o = "init_fail" THEN 0 ELSE 1
        session == IF drv = 1 THEN x.opened + 1 ELSE 0
        released == drv = 1 /\ QuitReached(o)
        e == [x EXCEPT !.tries[tier] = @ + 1,
                         !.opened = @ + drv,
                         !.quit = @ + (IF released THEN 1 ELSE 0),
                         !.live = IF drv = 1 /\ ~released THEN @ \cup {session} ELSE @,
                         !.used = Append(@, session)]
        n == AfterFailedAttempt(e, tier)
    IN  IF o \in {"short", "adequate"}
        THEN [e EXCEPT !.pc = "done", !.result = Str(tier, TextLen(o))]
        ELSE IF InRange(n) THEN n
        ELSE [n EXCEPT !.pc = "done", !.result = exhausted]

BrowserAttempt(tier, env, exhausted) == BrowserStep(ext, tier, env, exhausted)

\* _extract_transcript_youtube_tactiq: one iteration of the attempt loop
TactiqAttempt ==
    /\ ext.pc = "tactiq"
    /\ ext' = BrowserAttempt("tactiq", ext.tactiq, TactiqExhausted)
    /\ UNCHANGED <<orchVars, syn, ws, sm, rest>>

\* _extract_webpage_content: one iteration of the attempt loop
WebAttempt ==
    /\ ext.pc = "web"
    /\ ext' = BrowserAttempt("web", ext.web, WebExhausted)
    /\ UNCHANGED <<orchVars, syn, ws, sm, rest>>

\* the statement get_text executes next in state e
ExtStep(e) ==
    CASE e.pc = "start" -> RouteStep(e)
      [] e.pc = "api" -> ApiStep(e)
      [] e.pc = "tactiq" -> BrowserStep(e, "tactiq", e.tactiq, TactiqExhausted)
      [] e.pc = "web" -> BrowserStep(e, "web", e.web, WebExhausted)
      [] OTHER -> e

\* one whole call of get_text, from its entry to its return or raise
RECURSIVE RunGetText(_)
RunGetText(e) == IF e.pc = "done" THEN e ELSE RunGetText(ExtStep(e))

\* the worlds a URL can meet: what each tier's every attempt would give
SourceEnvs ==
    { ExtStart("video", ea, et, NoEnv) :
          ea \in [Attempts -> ApiOutcomes], et \in [Attempts -> BrowserOutcomes] }
    \cup { ExtStart("video_noid", NoEnv, et, NoEnv) : et \in [Attempts -> BrowserOutcomes] }
    \cup { ExtStart("webpage", NoEnv, NoEnv, ew) : ew \in [Attempts -> BrowserOutcomes] }
    \cup { ExtStart("nohost", NoEnv, NoEnv, NoEnv) }

\* the tier's first attempt that is not a transient failure gives adequate text
GoodAfterTransient(env, transient) ==
    \E a \in Attempts : env[a] = "adequate" /\ \A b \in 1..(a - 1) : env[b] \in transient

\* no attempt of the tier gives any text
NeverText(env) == \A a \in Attempts : TextLen(env[a]) = 0

SourceClass(e) ==
    CASE e.url = "video" /\ GoodAfterTransient(e.api, {"error"}) -> "video_good"
      [] IsYoutube(e.url) /\ NeverText(e.api) /\ NeverText(e.tactiq) -> "video_all_fail"
      [] e.url = "webpage" /\ GoodAfterTransient(e.web, {"init_fail", "error", "empty"})
            -> "page_good"
      [] OTHER -> "other"

\* every way a call of get_text can end, with the class of the source it was for
GetTextCalls ==
    { [class |-> SourceClass(e), result |-> RunGetText(e).result] : e \in SourceEnvs }

NextExtract ==
    \/ GetText
    \/ ApiAttempt
    \/ TactiqAttempt
    \/ WebAttempt

----------------------------------------------------------------------------
(* WorkspaceManager on one directory, with the payloads of its files *)

WsKeys == {"p5_global_briefing", "p6_multi_lens_analysis"}

\* names handed to save_report / load_report: the report of phase 5 and a name
\* that is also the file name of a checkpoint
WsReportNames == {"global_briefing.md", "p5_global_briefing.json"}

\* a save_report that writes every report to one fixed path
ReportPathShared(name) == "p6_multi_lens_analysis.json"

\* os.path.join(self.workspace_dir, filename), relative to the workspace
ReportPath(name) == name

\* the files run_phase_7_final_assembly reads and writes besides the checkpoints
STAGE_03_CSV == "stage_03_enriched_articles_regions.csv"
FINAL_POST == "weekly-news.md"

WsFiles ==
    { CheckpointFileName(k) : k \in WsKeys } \cup WsReportNames
        \cup {STAGE_03_CSV, FINAL_POST}

\* what a path of the directory holds
Absent == [kind |-> "absent", body |-> <<>>]
Corrupt == [kind |-> "corrupt", body |-> <<>>]
JsonFile(doc) == [kind |-> "json", body |-> doc]
TextFile(t) == [kind |-> "text", body |-> <<t>>]

\* objects handed to save_checkpoint: a body and a field that is a datetime object
\* or already a string
Payloads ==
    [n : { <<"body", i>> : i \in 1..MaxPayload }, date : {"datetime", "str"}]

\* json.dump(..., default=str): the datetime field becomes its string form
Serialise(p) == << p.n, IF p.date = "datetime" THEN "str" ELSE p.date >>

WsTexts == {"", "text"}

\* set(os.listdir(workspace_dir))
WsListDir(disk) == { f \in WsFiles : disk[f].kind # "absent" }

\* load_checkpoint_json: None when the path is missing or json.load raises
LoadCheckpointJson(disk, key) ==
    LET c == disk[CheckpointFileName(key)]
    IN  IF c.kind = "json" THEN [kind |-> "dict", body |-> c.body]
        ELSE [kind |-> "None", body |-> <<>>]

\* load_report: the text of the file, "" when the path is missing
WsLoadReport(disk, name) ==
    LET c == disk[name]
    IN  CASE c.kind = "absent" -> ""
          [] c.kind = "text" -> c.body[1]
          [] c.kind = "json" -> "json text"
          [] OTHER -> "truncated"

\* a write that leaves an existing file as it is
WrittenKeepFirst(old, new) == IF old.kind = "absent" THEN new ELSE old

\* open(path, "w") followed by a complete write
Written(old, new) == new

\* the outcomes of a write: done; failed before the file was opened (asdict or
\* open raised); failed after it was opened (the file is left truncated)
WriteOutcomes == {"ok", "open_fails", "dump_fails"}

\* the directory and the cache after "with open(path, 'w') ...; existing_files.add"
\* inside try/except Exception
WsWrite(w, f, content, o) ==
    CASE o = "ok" -> [w EXCEPT !.disk[f] = Written(@, content), !.cache = @ \cup {f}]
      [] o = "dump_fails" -> [w EXCEPT !.disk[f] = Corrupt]
      [] OTHER -> w

NoOp == [name |-> "none", arg |-> "", payload |-> <<>>, out |-> "", ret |-> Absent,
         prev |-> Absent]

\* the result of the synthesizer that a stage saves
StageResult == [n |-> <<"body", 1>>, date |-> "datetime"]

WsStart(disk) ==
    [pc |-> "on", disk |-> disk, cache |-> WsListDir(disk), op |-> NoOp]

\* WorkspaceManager.__init__ on a directory that is empty or holds a checkpoint
\* file left truncated by an earlier process, with or without the CSV of phase 2
InitWs ==
    \E c \in {Absent, Corrupt}, csv \in {Absent, TextFile("text")} :
        ws = WsStart([f \in WsFiles |->
                        CASE f = CheckpointFileName("p5_global_briefing") -> c
                          [] f = STAGE_03_CSV -> csv
                          [] OTHER -> Absent])

\* WorkspaceManager.__init__ of the next run on the same directory
WsConstruct ==
    /\ ws.pc = "on"
    /\ ws' = [ws EXCEPT !.cache = WsListDir(ws.disk),
                        !.op = [NoOp EXCEPT !.name = "construct"]]
    /\ UNCHANGED <<orchVars, syn, ext, sm, rest>>

\* WorkspaceManager.save_checkpoint
WsSaveCheckpoint ==
    /\ ws.pc = "on"
    /\ \E k \in WsKeys, p \in Payloads, o \in WriteOutcomes :
          LET f == CheckpointFileName(k)
              w == WsWrite(ws, f, JsonFile(Serialise(p)), o)
          IN  ws' = [w EXCEPT !.op = [name |-> "save_checkpoint", arg |-> k,
                                      payload |-> Serialise(p), out |-> o,
                                      ret |-> Absent, prev |-> ws.disk[f]]]
    /\ UNCHANGED <<orchVars, syn, ext, sm, rest>>

\* WorkspaceManager.save_report
WsSaveReport ==
    /\ ws.pc = "on"
    /\ \E name \in WsReportNames, t \in WsTexts, o \in WriteOutcomes :
          LET w == WsWrite(ws, ReportPath(name), TextFile(t), o)
          IN  ws' = [w EXCEPT !.op = [name |-> "save_report", arg |-> name,
                                      payload |-> <<t>>, out |-> o,
                                      ret |-> Absent, prev |-> Absent]]
    /\ UNCHANGED <<orchVars, syn, ext, sm, rest>>

\* WorkspaceManager.load_checkpoint_json
WsLoadCheckpoint ==
    /\ ws.pc = "on"
    /\ \E k \in WsKeys :
          ws' = [ws EXCEPT !.op = [name |-> "load_checkpoint_json", arg |-> k,
                                   payload |-> <<>>, out |-> "returned",
                                   ret |-> LoadCheckpointJson(ws.disk, k),
                                   prev |-> Absent]]
    /\ UNCHANGED <<orchVars, syn, ext, sm, rest>>

\* run_phase_5_global_briefing / run_phase_6_multi_lens_analysis on this workspace:
\* with a checkpoint the stage loads it, reconstructs when the data is truthy and
\* returns; without one it synthesizes, saves the checkpoint and the report.
\* op.ret is the data the stage holds in memory when it returns.
WsRunStage ==
    /\ ws.pc = "on"
    /\ \E k \in WsKeys, oc \in WriteOutcomes, orp \in WriteOutcomes :
          LET f == CheckpointFileName(k)
              data == LoadCheckpointJson(ws.disk, k)
              op(how, held) == [name |-> "stage", arg |-> k, payload |-> <<>>,
                                out |-> how, ret |-> held, prev |-> Absent]
          IN  IF has_checkpoint(ws.cache, k)
              THEN ws' = [ws EXCEPT !.op = op("skipped", data)]
              ELSE LET w1 == WsWrite(ws, f, JsonFile(Serialise(StageResult)), oc)
                       w2 == WsWrite(w1, ReportPath("global_briefing.md"),
                                     TextFile("text"), orp)
                   IN  ws' = [w2 EXCEPT !.op = op("worked",
                                  [kind |-> "dict", body |-> Serialise(StageResult)])]
    /\ UNCHANGED <<orchVars, syn, ext, sm, rest>>

\* a test that takes the name of the file for the data
CheckpointLoadedByName(w, key) == has_checkpoint(w.cache, key)

\* gb_data = self.workspace.load_checkpoint_json(key); "if not gb_data" is false
CheckpointLoaded(w, key) == LoadCheckpointJson(w.disk, key).kind = "dict"

\* WeeklyIntelOrchestrator.run_phase_7_final_assembly on this workspace: both
\* checkpoints must load and the CSV must exist, else ValueError; then the post
\* is assembled and handed to save_report
WsFinalAssembly ==
    /\ ws.pc = "on"
    /\ \E o \in WriteOutcomes :
          LET op(how) == [name |-> "phase7", arg |-> "", payload |-> <<>>,
                          out |-> how, ret |-> Absent, prev |-> ws.disk[FINAL_POST]]
          IN  IF /\ CheckpointLoaded(ws, "p5_global_briefing")
                 /\ CheckpointLoaded(ws, "p6_multi_lens_analysis")
                 /\ ws.disk[STAGE_03_CSV].kind # "absent"
              THEN ws' = [WsWrite(ws, ReportPath(FINAL_POST), TextFile("text"), o)
                             EXCEPT !.op = op("returned")]
              ELSE ws' = [ws EXCEPT !.op = op("ValueError")]
    /\ UNCHANGED <<orchVars, syn, ext, sm, rest>>

NextWorkspace ==
    \/ WsConstruct
    \/ WsSaveCheckpoint
    \/ WsSaveReport
    \/ WsLoadCheckpoint
    \/ WsRunStage
    \/ WsFinalAssembly

----------------------------------------------------------------------------
(* The summarising step: SummarizationService with IntelBriefGenerator, and
   ContentSummarizer.summarize with the fallback of generate_content_summarization *)

\* ContentSummarizer.summarize: max_retries of the extraction loop
summarize_max_retries == 2

\* what extractor.get_text hands to the summarising step: None, "", a text one
\* character short of the threshold, a text of the threshold length, and a text
\* of that length that starts with "[Error"
GetTextResults ==
    { None, EmptyStr, Str("web", MINIMUM_CONTENT_LENGTH - 1),
      Str("web", MINIMUM_CONTENT_LENGTH), Str("[Error", MINIMUM_CONTENT_LENGTH) }

\* a gate that only tests for emptiness
SufficientNonEmpty(content) == ~Falsy(content)

\* "not content or len(content) < MINIMUM_CONTENT_LENGTH", negated
Sufficient(content) == ~Falsy(content) /\ content.len >= MINIMUM_CONTENT_LENGTH

\* the test of the extraction loop of ContentSummarizer.summarize
UsableExtraction(content) ==
    /\ ~Falsy(content)
    /\ content.len >= MINIMUM_CONTENT_LENGTH
    /\ content.tier # "[Error"

SmStart(path) ==
    [pc |-> "article", path |-> path, i |-> 1, attempt |-> 0, content |-> EmptyStr,
     llmCalls |-> 0, summary |-> "", done |-> <<>>, srcs |-> <<>>, report |-> <<>>,
     failedFast |-> 0]

InitSm == \E path \in {"intel_brief", "summarize"} : sm = SmStart(path)

\* the article is finished: its record is kept and the next row is taken
SmFinish(m, summary) ==
    [m EXCEPT !.pc = "article", !.i = @ + 1, !.attempt = 0, !.content = EmptyStr,
              !.llmCalls = 0, !.summary = "", !.failedFast = 0,
              !.done = Append(@, [content |-> m.content, llmCalls |-> m.llmCalls,
                                  summary |-> summary])]

\* run_batch_summarization, a row that is not cached: raw_text = get_text(url);
\* an exception of get_text leaves the batch
SmExtract ==
    /\ sm.pc = "article" /\ sm.path = "intel_brief" /\ sm.i <= NumRows
    /\ \E g \in GetTextCalls :
          LET m == [sm EXCEPT !.srcs = Append(@, g.class)]
          IN  sm' = IF g.result = TypeError
                    THEN [m EXCEPT !.pc = "raised"]
                    ELSE [m EXCEPT !.pc = "generate", !.content = g.result]
    /\ UNCHANGED <<orchVars, syn, ext, ws, rest>>

\* IntelBriefGenerator.generate
SmGenerate ==
    /\ sm.pc = "generate"
    /\ IF ~Sufficient(sm.content)
       THEN sm' = SmFinish(sm, "**GENERATION FAILED** Content too short.")
       ELSE \/ sm' = SmFinish([sm EXCEPT !.llmCalls = @ + 1], "generated")
            \/ sm' = SmFinish([sm EXCEPT !.llmCalls = @ + 1], "")
            \/ sm' = SmFinish([sm EXCEPT !.llmCalls = @ + 1],
                              "**GENERATION FAILED** Generation Error")
    /\ UNCHANGED <<orchVars, syn, ext, ws, rest>>

\* run_batch_summarization, after the last row of the group: the report is built
\* from group_articles and the artifacts are returned
SmBuildReport ==
    /\ sm.pc = "article" /\ sm.path = "intel_brief" /\ sm.i > NumRows
    /\ sm' = [sm EXCEPT !.pc = "returned",
                        !.report = [k \in 1..Len(sm.done) |-> sm.done[k].summary]]
    /\ UNCHANGED <<orchVars, syn, ext, ws, rest>>

\* the call of get_text ended its first video tier on TranscriptsDisabled or
\* NoTranscriptFound, the error the tier does not retry
ApiFailedFast(e) ==
    LET r == RunGetText(e)
    IN  r.tries.api > 0 /\ e.api[r.tries.api] = "disabled"

\* every way a call of get_text by summarize can end: the results of the
\* extractor, with whether its first video tier failed fast, and the error
\* strings the summarizer also tests for
SummarizeGetTextCalls ==
    { [result |-> RunGetText(e).result, failedFast |-> IF ApiFailedFast(e) THEN 1 ELSE 0] :
          e \in SourceEnvs }
    \cup { [result |-> c, failedFast |-> 0] : c \in GetTextResults }

\* ContentSummarizer.summarize, one iteration of the extraction loop
SmAttempt ==
    /\ sm.pc = "article" /\ sm.path = "summarize" /\ sm.i <= NumArticles
    /\ \E g \in SummarizeGetTextCalls :
          LET c == g.result
              got == IF c = TypeError THEN sm.content ELSE c
              m == [sm EXCEPT !.content = got, !.failedFast = @ + g.failedFast]
          IN  IF c # TypeError /\ UsableExtraction(c)
              THEN sm' = [m EXCEPT !.pc = "summarize_text"]
              ELSE IF sm.attempt < summarize_max_retries
              THEN sm' = [m EXCEPT !.attempt = @ + 1]
              ELSE sm' = [m EXCEPT !.pc = "fallback",
                                   !.summary = "Error: Failed to extract usable content"]
    /\ UNCHANGED <<orchVars, syn, ext, ws, rest>>

\* ContentSummarizer._summarize_text
SmSummarizeText ==
    /\ sm.pc = "summarize_text"
    /\ IF ~Sufficient(sm.content)
       THEN sm' = [sm EXCEPT !.pc = "fallback",
                            !.summary = "Error: Not enough content"]
       ELSE \/ sm' = [sm EXCEPT !.pc = "fallback", !.llmCalls = @ + 1,
                                !.summary = "generated"]
            \/ sm' = [sm EXCEPT !.pc = "fallback", !.llmCalls = @ + 1,
                                !.summary = "Error: Failed to generate summary"]
    /\ UNCHANGED <<orchVars, syn, ext, ws, rest>>

ErrorSummaries ==
    { "Error: Failed to extract usable content", "Error: Not enough content",
      "Error: Failed to generate summary" }

\* generate_content_summarization: a summary that starts with "Error:" is
\* replaced by the fallback sentence
SmFallback ==
    /\ sm.pc = "fallback"
    /\ sm' = SmFinish(sm, IF sm.summary \in ErrorSummaries
                          THEN "Could not retrieve summary. Please visit the link directly."
                          ELSE sm.summary)
    /\ UNCHANGED <<orchVars, syn, ext, ws, rest>>

NextSummary ==
    \/ SmExtract
    \/ SmGenerate
    \/ SmBuildReport
    \/ SmAttempt
    \/ SmSummarizeText
    \/ SmFallback

----------------------------------------------------------------------------
(* Idle values of the other groups *)

IdleSyn == syn = [pc |-> "off"]

IdleExt == ext = [pc |-> "off"]
IdleWs == ws = [pc |-> "off"]
IdleSm == sm = [pc |-> "off"]
IdleEtl == etl = [pc |-> "off"]
IdleTf == tf = [pc |-> "off"]
IdleRc == rc = [pc |-> "off"]
IdleYt == yt = [pc |-> "off"]
IdleBs == bs = [pc |-> "off"]
IdleRt == rt = [pc |-> "off"]
IdleCv == cv = [pc |-> "off"]
IdleMore == IdleBs /\ IdleRt /\ IdleCv
IdleRest == IdleEtl /\ IdleTf /\ IdleRc /\ IdleYt /\ IdleMore
IdleCore == IdleOrch /\ IdleSyn /\ IdleExt /\ IdleWs /\ IdleSm

Init == InitOrch /\ IdleSyn /\ IdleExt /\ IdleWs /\ IdleSm /\ IdleRest

Next ==
    \/ Terminate
    \/ Construct
    \/ \E k \in 1..7 : CallPhase(k)
    \/ CallRun
    \/ RunNext
    \/ PhaseReturn
    \/ PhaseRaise
    \/ CallLegacyRun
    \/ LegacyNext
    \/ LegacyPhaseBody
    \/ \E s \in CheckpointedStages : StageCheck(s)
    \/ \E s \in CheckpointedStages : StageReload(s)
    \/ \E s \in CheckpointedStages : StageInput(s)
    \/ \E s \in CheckpointedStages : StageWork(s)
    \/ \E s \in CheckpointedStages : StageSaveCheckpoint(s)
    \/ \E s \in CheckpointedStages : StageSaveReport(s)
    \/ \E s \in CheckpointedStages : StageEnd(s)
    \/ P2Links
    \/ P2Titles
    \/ P2Regions
    \/ P2Report
    \/ P3Check
    \/ P3Article
    \/ P3Save
    \/ P7Assemble

Spec == Init /\ [][Next]_vars

InitSynth == IdleOrch /\ InitSyn /\ IdleExt /\ IdleWs /\ IdleSm /\ IdleRest

SpecSynth == InitSynth /\ [][NextSynth]_vars

InitExtract == IdleOrch /\ IdleSyn /\ InitExt /\ IdleWs /\ IdleSm /\ IdleRest

SpecExtract == InitExtract /\ [][NextExtract]_vars

InitWorkspace == IdleOrch /\ IdleSyn /\ IdleExt /\ InitWs /\ IdleSm /\ IdleRest

SpecWorkspace == InitWorkspace /\ [][NextWorkspace]_vars

InitSummary == IdleOrch /\ IdleSyn /\ IdleExt /\ IdleWs /\ InitSm /\ IdleRest

SpecSummary == InitSummary /\ [][NextSummary]_vars

----------------------------------------------------------------------------
(* Claims about the orchestrator (specification Spec) *)

IsPrefix(a, b) == Len(a) <= Len(b) /\ \A i \in 1..Len(a) : a[i] = b[i]

\* C1: once a checkpointed stage has saved its checkpoint, no later step makes an
\* external call on behalf of that stage or changes the stored checkpoint.
C1_CheckpointedStageIdempotent ==
    [][\A s \in CheckpointedStages :
          fs[CheckpointFileName(SaveKey(s))] > 0 =>
             /\ extCalls'[s] = extCalls[s]
             /\ fs'[CheckpointFileName(SaveKey(s))] = fs[CheckpointFileName(SaveKey(s))]]_vars

\* C2: when a process ended after phase 2 persisted its output and before phase 3
\* completed, a following run() that returns has made no external call for
\* phases 1 and 2 and has completed phase 3.
C2_ResumeSkipsPhases12AndCompletesPhase3 ==
    (hist.rerun /\ runStatus = "returned") =>
        /\ CallsOfPhases12(extCalls) = hist.callsAtRerun
        /\ hist.p3done

\* C3: run() starts the phases in declared order, starts a phase only after every
\* earlier one returned normally, starts nothing after a phase raised, and then
\* ends by raising itself.
C3_RunStartsPhasesInOrderAndAbortsOnRaise ==
    /\ Len(results) = Len(started)
    /\ (frame = "run" => IsPrefix(started, RunPhases))
    /\ (frame = "legacy" => IsPrefix(started, LegacyRunPhases))
    /\ \A i \in 1..(Len(started) - 1) : results[i] = "returned"
    /\ (Len(started) > 0 /\ results[Len(started)] = "raised" => runStatus = "raised")
    /\ (runStatus = "returned" =>
            /\ started \in {RunPhases, LegacyRunPhases}
            /\ \A i \in 1..Len(started) : results[i] = "returned")
    /\ (runStatus = "raised" => Len(started) > 0 /\ results[Len(started)] = "raised")

\* C3 witness: run() has called phase 1, the phase raised, and run() raised.
C3_Witness ==
    runStatus = "raised" /\ started = <<1>> /\ results = <<"raised">>

OutcomeSkipped(r) ==
    r.found /\ ~r.worked /\ ~r.ckptTried /\ ~r.reportTried /\ ~r.noInput

OutcomeWorked(r) ==
    ~r.found /\ r.worked /\ r.ckptTried /\ r.reportTried /\ ~r.noInput

OutcomePrerequisiteMissing(r) ==
    /\ ~r.found /\ ~r.worked /\ ~r.ckptTried /\ ~r.reportTried /\ r.noInput
    /\ r.stage \in {"s12", "p4"}

CanonicalRegions(st) ==
    IF st = "mainstream" THEN MAINSTREAM_REQUIRED_REGIONS ELSE REQUIRED_REGIONS

\* C5: every result returned by a synthesis stage (mainstream narrative, global
\* briefing, multi-lens analysis) has exactly one entry per region of the stage's
\* canonical list and no other entry, also when the generation call raised.
C5_SynthesisResultIsCanonical ==
    (syn.pc = "done" /\ syn.stage \in {"mainstream", "global", "multilens"}) =>
        Keys(syn.out) = CanonicalRegions(syn.stage)

\* C6: whatever the parsed entries are (missing, extra, duplicated, in any order),
\* the region keys of what _validate_and_fill_regions returns are exactly
\* REQUIRED_REGIONS, in that order.
C6_ValidatorKeysAreRequiredRegions ==
    syn.validated => Keys(syn.out) = CanonicalRegions(syn.stage)

\* the global-briefing validator has returned for parsed entries that come out of
\* order, contain a region outside the list and repeat a region
C6_Witness ==
    /\ syn.pc = "done" /\ syn.stage = "global" /\ syn.validated
    /\ Keys(syn.parsed) = << "Russia", "Atlantis", "Global", "Global" >>
    /\ Len(syn.out) = Len(REQUIRED_REGIONS)

Flatten(lists) ==
    LET F[i \in 0..Len(lists)] == IF i = 0 THEN <<>> ELSE F[i - 1] \o lists[i]
    IN  F[Len(lists)]

\* the files of the materialist stage whose generation call returned, in file order
FilesAnalysed(files, outcomes) ==
    LET F[i \in 0..Len(files)] ==
            IF i = 0 THEN <<>>
            ELSE IF outcomes[i] = "ok" THEN Append(F[i - 1], files[i]) ELSE F[i - 1]
    IN  F[Len(files)]

IsPlaceholder(e) == e.body \in {"system_error", "no_intelligence", "no_reporting",
                                "processing_error"}

\* the regions a raising generation call was asked for
AffectedCategories ==
    IF syn.stage = "multilens"
    THEN UNION { Range(ChunkList(REQUIRED_REGIONS, BATCH_SIZE)[b]) :
                    b \in { c \in 1..Len(syn.outcomes) : syn.outcomes[c] = "raise" } }
    ELSE { syn.files[i] : i \in { j \in 1..Len(syn.outcomes) : syn.outcomes[j] = "raise" } }

\* C7 as stated: when the generation call of one category raises (a region batch of
\* the multi-lens stage, a region file of the materialist stage), the stage returns
\* and its output has a placeholder entry for each affected category.
C7_PlaceholderForEachAffectedCategory ==
    (syn.pc = "done" /\ syn.stage \in {"multilens", "materialist"}) =>
        \A r \in AffectedCategories :
            \E e \in Range(syn.out) : e.region = r /\ IsPlaceholder(e)

\* C7: when a generation call raises, the stage still returns. The multi-lens
\* output holds, for each required region, the last entry any batch response
\* supplied for it, and a placeholder when no response supplied one; the
\* materialist output holds exactly the entries of the files whose call returned,
\* and nothing for the file whose call raised.
C7_FailedCategoryHandling ==
    (syn.pc = "done" /\ "raise" \in Range(syn.outcomes)) =>
        /\ syn.stage = "multilens" =>
              LET supplied == Flatten(syn.got)
              IN  /\ Len(syn.out) = Len(REQUIRED_REGIONS)
                  /\ \A i \in 1..Len(REQUIRED_REGIONS) :
                        IF \E e \in Range(supplied) : e.region = REQUIRED_REGIONS[i]
                        THEN /\ syn.out[i] = supplied[LastIndexOf(supplied, REQUIRED_REGIONS[i])]
                             /\ ~IsPlaceholder(syn.out[i])
                        ELSE syn.out[i] = [region |-> REQUIRED_REGIONS[i],
                                           body |-> "system_error"]
        /\ syn.stage = "materialist" =>
              /\ Keys(syn.out) = FilesAnalysed(syn.files, syn.outcomes)
              /\ \A e \in Range(syn.out) : ~IsPlaceholder(e)

\* the materialist stage has returned after the call for its first file raised and
\* the call for its second file returned
C7_Witness ==
    /\ syn.pc = "done" /\ syn.stage = "materialist"
    /\ syn.files = << "Global", "Russia" >>
    /\ syn.outcomes = << "raise", "ok" >>
    /\ Keys(syn.out) = << "Russia" >>

\* get_text is back without a text
NoTierDelivered == ext.pc = "done" /\ ~(ext.result.kind = "str" /\ ext.result.len > 0)

\* C8: for every URL string, get_text returns the empty string and raises nothing
\* when every applicable tier has failed or has used up its attempts.
C8_TerminalFailureReturnsEmptyString ==
    NoTierDelivered => ext.result = EmptyStr

\* C9: at every tier a text shorter than the minimum-content threshold is rejected
\* although the tier's call succeeded, and get_text goes on to the next tier
\* instead of returning the short text.
C9_MinimumLengthGate ==
    ext.pc = "done" =>
        /\ ext.result.kind = "str" =>
              (ext.result.len = 0 \/ ext.result.len >= MINIMUM_CONTENT_LENGTH)
        /\ (ext.tries.api > 0 /\ ext.api[ext.tries.api] = "short") => ext.tries.tactiq > 0

\* C10: for a video URL whose transcript-service tier returns sub-threshold text
\* and whose browser tier returns adequate text, get_text returns the browser
\* tier's text, and the transcript-service tier is attempted at most
\* max_retries + 1 times before falling through.
C10_TierFallbackOrdering ==
    (ext.pc = "done" /\ ext.url = "video"
        /\ ext.api[1] = "short" /\ ext.tactiq[1] = "adequate") =>
        /\ ext.result = Str("tactiq", MINIMUM_CONTENT_LENGTH)
        /\ ext.tries.api <= max_retries + 1
        /\ ext.tries.tactiq >= 1

Tiers == {"api", "tactiq", "web"}

Acceptable(v) == v.kind = "str" /\ v.len >= MINIMUM_CONTENT_LENGTH

\* the outcome of the last attempt the transcript-service tier made
LastApiOutcome == IF ext.tries.api > 0 THEN ext.api[ext.tries.api] ELSE "none"

\* C11: get_text routes by URL family. For a video URL the tiers run in order, a
\* later tier only after the earlier one was abandoned, and the text returned is
\* that of the first tier that produced acceptable text; for any other URL only
\* the browser-scrape tier runs, never a transcript tier.
C11_RoutingByUrlFamily ==
    (ext.pc = "done" /\ ~HostnameIsNone(ext.url)) =>
        IF IsYoutube(ext.url)
        THEN /\ ext.tries.web = 0
             /\ ext.tries.tactiq > 0 => LastApiOutcome # "adequate"
             /\ LastApiOutcome # "adequate" => ext.tries.tactiq > 0
             /\ (ext.result.kind = "str" /\ ext.result.len > 0) => Acceptable(ext.result)
        ELSE /\ ext.tries.api = 0
             /\ ext.tries.tactiq = 0

\* C12: an attempt of the transcript tier that fails with a deterministic error
\* (transcripts disabled, no transcript found) ends the tier at once: no further
\* attempt, no backoff sleep; a tier whose first attempt fails so is attempted
\* exactly once.
C12_DeterministicErrorFailsFast ==
    LastApiOutcome = "disabled" =>
        /\ ext.pc # "api"
        /\ Len(ext.sleeps.api) = ext.tries.api - 1
        /\ ext.api[1] = "disabled" => ext.tries.api = 1

\* the transcript tier has met a deterministic error on its first attempt and
\* get_text has gone on to the Tactiq tier
C12_Witness ==
    /\ ext.pc = "tactiq" /\ ext.url = "video"
    /\ ext.api[1] = "disabled" /\ ext.tries.api = 1
    /\ ext.sleeps.api = <<>>

\* C13: within one get_text call each tier makes at most max_retries + 1 attempts,
\* sleeps the fixed delay between two consecutive attempts of the same tier and
\* does not sleep after its last attempt.
C13_BoundedAttemptsAndBackoff ==
    \A t \in Tiers :
        /\ ext.tries[t] <= max_retries + 1
        /\ \A i \in 1..Len(ext.sleeps[t]) : ext.sleeps[t][i] = retry_delays[1]
        /\ Len(ext.sleeps[t]) =
              IF ext.pc = t THEN ext.tries[t]
              ELSE IF ext.tries[t] > 0 THEN ext.tries[t] - 1 ELSE 0

\* the webpage tier has used up its attempts: one sleep, between the two attempts
C13_Witness ==
    /\ ext.pc = "done" /\ ext.url = "webpage"
    /\ ext.tries.web = max_retries + 1
    /\ ext.sleeps.web = << 2 >>
    /\ ext.web[max_retries + 1] = "error"

\* C14: every browser attempt creates its own new session and that session is quit
\* before the next attempt creates one and before get_text returns, whatever the
\* attempt did; no session serves two attempts and none is left open.
C14_FreshSessionAlwaysReleased ==
    /\ ext.live = {}
    /\ ext.opened = ext.quit
    /\ \A i, j \in 1..Len(ext.used) :
          (i # j /\ ext.used[i] # 0) => ext.used[i] # ext.used[j]

\* the Tactiq tier has failed once and returned text on its second attempt, each
\* attempt with a session of its own
C14_Witness ==
    /\ ext.pc = "done" /\ ext.url = "video"
    /\ ext.tactiq[1] = "error" /\ ext.tactiq[2] = "adequate"
    /\ ext.used = << 1, 2 >>
    /\ ext.result = Str("tactiq", MINIMUM_CONTENT_LENGTH)

\* C15: when a stage's checkpoint file exists but is corrupt or unreadable,
\* load_checkpoint_json returns None without raising and the next run (a manager
\* constructed on the directory as it is) executes the stage again.
C15_CorruptCheckpointIsRedone ==
    [][/\ (ws'.op.name = "load_checkpoint_json"
              /\ ws.disk[CheckpointFileName(ws'.op.arg)].kind \in {"corrupt", "text"})
          => ws'.op.ret.kind = "None"
       /\ (ws'.op.name = "stage"
              /\ ws.disk[CheckpointFileName(ws'.op.arg)].kind \in {"corrupt", "text"}
              /\ ws.cache = WsListDir(ws.disk))
          => ws'.op.out = "worked"]_vars

\* C16: a save_checkpoint(key, payload) for a key not yet checkpointed whose write
\* fails at any point raises nothing, and afterwards has_checkpoint(key) is false
\* in this process and in a WorkspaceManager constructed on the same directory by
\* the next run.
C16_FailedSaveLeavesNoCheckpoint ==
    [][(ws'.op.name = "save_checkpoint" /\ ws'.op.out # "ok"
           /\ ws.disk[CheckpointFileName(ws'.op.arg)] = Absent) =>
          /\ ~has_checkpoint(ws'.cache, ws'.op.arg)
          /\ ~has_checkpoint(WsListDir(ws'.disk), ws'.op.arg)]_vars

\* C17: after a successful save_checkpoint(k, p) on one manager, has_checkpoint(k)
\* is true, load_checkpoint_json(k) returns the serialised form of the p saved
\* last (a rewrite overwrites), and has_checkpoint(j) is unchanged for j # k.
C17_SaveThenLoadRoundTrip ==
    [][(ws'.op.name = "save_checkpoint" /\ ws'.op.out = "ok") =>
          /\ has_checkpoint(ws'.cache, ws'.op.arg)
          /\ LoadCheckpointJson(ws'.disk, ws'.op.arg)
                = [kind |-> "dict", body |-> ws'.op.payload]
          /\ \A j \in WsKeys \ {ws'.op.arg} :
                has_checkpoint(ws'.cache, j) = has_checkpoint(ws.cache, j)]_vars

\* a checkpoint has just been rewritten with a payload other than the one it held
C17_Witness ==
    /\ ws.pc = "on" /\ ws.op.name = "save_checkpoint" /\ ws.op.out = "ok"
    /\ ws.op.prev.kind = "json" /\ ws.op.prev.body # ws.op.payload
    /\ ws.disk[CheckpointFileName(ws.op.arg)] = JsonFile(ws.op.payload)

\* the file names of the form <key>.json
CheckpointFileNames == {"p5_global_briefing.json", "p6_multi_lens_analysis.json"}

\* what the checkpoint interface and the report interface show of a workspace
CheckpointView(w) ==
    [k \in WsKeys |-> <<has_checkpoint(w.cache, k), LoadCheckpointJson(w.disk, k)>>]
ReportView(w, names) == [n \in names |-> WsLoadReport(w.disk, n)]

InputReports == {"mainstream_narrative", "analysis_headlines", "economic_snapshot",
                 "materialist_analysis"}

\* the file name (after the date prefix) under which the earlier phase saves it
SavedAs(r) ==
    CASE r = "mainstream_narrative" -> ReportFile("s12")
      [] r = "analysis_headlines"   -> "consolidated_analysis_headlines_report.md"
      [] r = "economic_snapshot"    -> ReportFile("s13")
      [] r = "materialist_analysis" -> ReportFile("p4")

\* the file name (after the date prefix) that phases 5 and 6 pass to load_report
LoadedAs(r) ==
    CASE r = "mainstream_narrative" -> "mainstream_narrative.md"
      [] r = "analysis_headlines"   -> "analysis_headlines.md"
      [] r = "economic_snapshot"    -> "global_economic_snapshot.md"
      [] r = "materialist_analysis" -> "materialist_analysis.md"

\* C19: every report name that phases 5 and 6 load is the name under which an
\* earlier phase saved that report, so that once the report has been saved the
\* load returns its text and not "".
C19_LoadedReportNamesAreSavedNames ==
    \A s \in {"p5", "p6"} :
        pc = <<s, "input">> =>
            \A r \in InputReports :
                /\ LoadedAs(r) = SavedAs(r)
                /\ fs[SavedAs(r)] # 0 => load_report(fs, LoadedAs(r)) # 0

FailurePlaceholders ==
    { "**GENERATION FAILED** Content too short.",
      "Could not retrieve summary. Please visit the link directly." }

\* C20: whenever the content extracted for an article is empty, absent or shorter
\* than MINIMUM_CONTENT_LENGTH, the summarising step makes no call to the
\* generation backend for that article and records a failure placeholder as its
\* summary.
C20_InsufficientContentIsNotSummarised ==
    /\ sm.pc # "off" =>
          \A d \in Range(sm.done) :
              ~Acceptable(d.content) =>
                  (d.llmCalls = 0 /\ d.summary \in FailurePlaceholders)
    /\ (sm.pc # "off" /\ sm.llmCalls > 0) => Acceptable(sm.content)

\* the batch of the intel-brief path has given a placeholder to an article whose
\* text was one character short and a generated summary to the next article
C20_Witness ==
    /\ sm.pc = "article" /\ sm.path = "intel_brief" /\ Len(sm.done) >= 2
    /\ sm.done[1] = [content |-> Str("web", MINIMUM_CONTENT_LENGTH - 1), llmCalls |-> 0,
                     summary |-> "**GENERATION FAILED** Content too short."]
    /\ sm.done[2].summary = "generated" /\ sm.done[2].llmCalls = 1

\* the three sources of the end-to-end scenario, in any order
ScenarioRows(srcs) ==
    /\ Len(srcs) = 3
    /\ {srcs[k] : k \in 1..3} = {"video_good", "video_all_fail", "page_good"}

\* the generation backend answered every prompt of the batch with text
BackendAnswered(done) ==
    \A d \in Range(done) :
        d.summary \notin {"", "**GENERATION FAILED** Generation Error"}

CountOf(seq, values) == Cardinality({k \in 1..Len(seq) : seq[k] \in values})

----------------------------------------------------------------------------
(* The three-step ETL: AnalysisETLService.run_etl and the legacy run_news_etl.
   Stage k is the artifact of step k: 1 the collected links, 2 the links with
   titles, 3 the links with titles and regions. *)

MaxRuns == 2       \* process lives that call the ETL on the same workspace

EtlVariants == {"run_etl", "run_news_etl"}

EtlSteps == 1..3

\* STAGE_01_FILENAME .. STAGE_03_FILENAME, and the p1_/p2_/p3_ names of run_news_etl
EtlFileName(variant, k) ==
    IF variant = "run_etl"
    THEN CASE k = 1 -> "stage_01_raw_articles_links.csv"
           [] k = 2 -> "stage_02_enriched_articles_titles.csv"
           [] k = 3 -> "stage_03_enriched_articles_regions.csv"
    ELSE CASE k = 1 -> "p1_collected_analysis_links.csv"
           [] k = 2 -> "p2_articles_with_titles.csv"
           [] k = 3 -> "p3_articles_with_regions.csv"

\* LinkCollector(persistence_path=stage_01_path): the collector writes the links
\* it collected to that path before collect_analysis_links returns
CollectorPersists == TRUE

EtlStart(variant) ==
    [pc |-> "idle", variant |-> variant, runs |-> 0, disk |-> {}, written |-> {},
     called |-> {}, i |-> 1, atCrash |-> {}, status |-> "none"]

InitEtl == \E v \in EtlVariants : etl = EtlStart(v)

\* a step that leaves its artifact to be written later
PersistStageDeferred(e, k) == e

\* df.to_csv(stage_k_path): the artifact of step k is on disk
PersistStage(e, k) ==
    [e EXCEPT !.disk = @ \cup {EtlFileName(e.variant, k)}, !.written = @ \cup {k}]

\* the ETL ends: by return, or by an exception that run_etl lets through and
\* run_news_etl logs
EtlEnd(e, status) == [e EXCEPT !.pc = "idle", !.status = status]

EtlWriteFailed(e) ==
    EtlEnd(e, IF e.variant = "run_etl" THEN "raised" ELSE "logged")

\* a process calls the ETL: every local starts afresh
EtlCall ==
    /\ etl.pc = "idle" /\ etl.runs < MaxRuns
    /\ etl' = [etl EXCEPT !.pc = "links", !.runs = @ + 1, !.written = {},
                          !.called = {}, !.i = 1, !.status = "running"]
    /\ UNCHANGED <<core, tf, rc, yt, more>>

\* step 1: collect_analysis_links (browser and operator), then the links file
EtlLinks ==
    /\ etl.pc = "links"
    /\ LET e == [etl EXCEPT !.called = @ \cup {1}]
       IN  \/ etl' = EtlEnd(e, "no_links")
           \/ /\ e.variant = "run_etl" /\ CollectorPersists
              /\ etl' = [PersistStage(e, 1) EXCEPT !.pc = "titles"]
           \/ /\ e.variant = "run_news_etl"
              /\ \/ etl' = [PersistStage(e, 1) EXCEPT !.pc = "titles"]
                 \/ etl' = EtlWriteFailed(e)
    /\ UNCHANGED <<core, tf, rc, yt, more>>

\* step 2: fetch_all_titles over the links of step 1, then the titles file
EtlTitles ==
    /\ etl.pc = "titles"
    /\ LET e == [etl EXCEPT !.called = @ \cup {2}]
       IN  \/ etl' = EtlEnd(e, "no_titles")
           \/ etl' = [PersistStage(e, 2) EXCEPT !.pc = "regions"]
           \/ etl' = EtlWriteFailed(e)
    /\ UNCHANGED <<core, tf, rc, yt, more>>

\* step 3, one row: categorizer.get_region(combined_text); run_news_etl makes one
\* categorize_regions call for all rows
EtlRegion ==
    /\ etl.pc = "regions" /\ etl.i <= NumArticles
    /\ etl' = [etl EXCEPT !.called = @ \cup {3},
                          !.i = IF etl.variant = "run_etl" THEN @ + 1
                                ELSE NumArticles + 1]
    /\ UNCHANGED <<core, tf, rc, yt, more>>

\* step 3, after the last row: the regions file, then the return
EtlSaveRegions ==
    /\ etl.pc = "regions" /\ etl.i > NumArticles
    /\ \/ etl' = EtlEnd(PersistStage(etl, 3), "returned")
       \/ etl' = EtlWriteFailed(etl)
    /\ UNCHANGED <<core, tf, rc, yt, more>>

\* the process dies between two statements of the ETL
EtlCrash ==
    /\ etl.pc \in {"links", "titles", "regions"}
    /\ etl' = [etl EXCEPT !.pc = "idle", !.status = "crashed", !.atCrash = etl.disk]
    /\ UNCHANGED <<core, tf, rc, yt, more>>

NextEtl ==
    \/ EtlCall
    \/ EtlLinks
    \/ EtlTitles
    \/ EtlRegion
    \/ EtlSaveRegions
    \/ EtlCrash

InitEtlSpec == IdleCore /\ InitEtl /\ IdleTf /\ IdleRc /\ IdleYt /\ IdleMore

SpecEtl == InitEtlSpec /\ [][NextEtl]_vars

\* C22: a run of the ETL that follows a crash makes no external call for a step
\* whose artifact was already on disk when the crash happened; it resumes after
\* the last persisted step.
C22_ResumeAfterLastPersistedStep ==
    (etl.pc # "off" /\ etl.status = "running") =>
        \A k \in etl.called : EtlFileName(etl.variant, k) \notin etl.atCrash

----------------------------------------------------------------------------
(* TitleFetcher: fetch_all_titles and the browser session behind it.
   "modules" is src/modules/title_fetcher.py (a session is reused and reset
   after a number of uses), "legacy" is src/title_fetcher.py (one lazy session). *)

MaxRecords == 3      \* rows of the DataFrame given to the TitleFetcher
MaxThreshold == 3    \* largest driver_reset_threshold tried

\* row.get("format", "webpage"): the two formats the loop knows and any other value
Formats == {"youtube", "webpage", "other"}

NoTitle == "none"    \* None, or a title that is empty after strip()

\* how the rows of the input DataFrame are labelled: the default RangeIndex
\* 0..n-1, the same labels in reverse order (a frame sorted descending), or
\* labels 1..n (a frame whose first row was dropped, or a 1-based index)
Labellings == {"range", "reversed", "shifted"}

\* the index label that iterrows() yields for the k-th row of n
IndexLabel(labelling, k, n) ==
    CASE labelling = "range" -> k - 1
      [] labelling = "reversed" -> n - k
      [] OTHER -> k

\* titles[label] on a list of n items: the place counted from 1, from the end
\* for a negative subscript, and 0 for IndexError
ListPosition(label, n) ==
    CASE label >= 0 /\ label < n -> label + 1
      [] label < 0 /\ label >= 0 - n -> n + label + 1
      [] OTHER -> 0

TfStart(version, threshold, formats, labelling) ==
    [pc |-> "auto", version |-> version, threshold |-> threshold, formats |-> formats,
     labelling |-> labelling,
     i |-> 1, q |-> 1, titles |-> <<>>, auto |-> <<>>, owner |-> <<>>,
     manual_queue |-> <<>>, attempted |-> {},
     prompted |-> <<>>, driver |-> 0, use_count |-> 0, opened |-> 0, live |-> {},
     served |-> <<>>]

InitTf ==
    \E n \in 1..MaxRecords : \E formats \in [1..n -> Formats], lab \in Labellings :
        \/ \E th \in 1..MaxThreshold : tf = TfStart("modules", th, formats, lab)
        \/ tf = TfStart("legacy", 0, formats, lab)

\* a fetcher that launches a session only when it has none
NeedsNewDriverLazy(t, count) == t.driver = 0

\* needs_new_driver of _init_driver; every caller asks for headless=False, the mode
\* of every session launched, so the mode test is never true
NeedsNewDriver(t, count) == t.driver = 0 \/ count >= t.threshold

\* _launch_new_driver: quit the session in hand, launch one, reset the count;
\* a launch that fails leaves no session and raises
LaunchNewDriver(t, launched) ==
    LET s == [t EXCEPT !.live = @ \ {t.driver}, !.driver = 0]
    IN  IF launched
        THEN [s EXCEPT !.opened = @ + 1, !.driver = t.opened + 1, !.use_count = 0,
                       !.live = @ \cup {t.opened + 1}, !.served = Append(@, 0)]
        ELSE [s EXCEPT !.pc = "raising"]

\* _init_driver, then the page is opened in the session it returned
InitDriver(t, launched) ==
    LET c == [t EXCEPT !.use_count = @ + 1]
        d == IF t.version = "modules"
             THEN IF NeedsNewDriver(c, c.use_count) THEN LaunchNewDriver(c, launched) ELSE c
             ELSE IF t.driver = 0 THEN LaunchNewDriver(t, launched) ELSE t
    IN  IF d.pc = "raising" THEN d
        ELSE [d EXCEPT !.served[d.driver] = @ + 1]

\* close_driver (modules) / the finally block of the legacy fetch_all_titles
CloseDriver(t) ==
    IF t.driver = 0 THEN t
    ELSE [t EXCEPT !.live = @ \ {t.driver}, !.driver = 0,
                   !.use_count = IF t.version = "modules" THEN 0 ELSE @]

\* a loop that queues every record
QueueForManualAll(t, title) ==
    [t EXCEPT !.titles = Append(@, title), !.manual_queue = Append(@, t.i)]

\* titles.append(title); if not title: manual_queue.append(...)
QueueForManual(t, title) ==
    [t EXCEPT !.titles = Append(@, title),
              !.manual_queue = IF title = NoTitle THEN Append(@, t.i) ELSE @]

\* an exception that leaves fetch_all_titles with the session as it is
TfRaiseNoFinally(t) == [t EXCEPT !.pc = "raised"]

\* the exception leaves fetch_all_titles through its finally block
TfRaise(t) == [CloseDriver(t) EXCEPT !.pc = "raised"]

\* phase 1, one record
TfAuto ==
    /\ tf.pc = "auto" /\ tf.i <= Len(tf.formats)
    /\ \E launched \in BOOLEAN, title \in {"fetched", NoTitle} :
          LET f == tf.formats[tf.i]
              t == IF f = "youtube" THEN InitDriver(tf, launched) ELSE tf
              a == [t EXCEPT !.attempted = IF f = "other" THEN @ ELSE @ \cup {tf.i}]
              got == IF f = "other" THEN NoTitle ELSE title
          IN  tf' = IF t.pc = "raising" THEN TfRaise(t)
                    ELSE [QueueForManual(a, got) EXCEPT
                             !.i = @ + 1, !.auto = Append(@, got),
                             !.owner = Append(@, IF got = NoTitle THEN 0 ELSE tf.i)]
    /\ UNCHANGED <<core, etl, rc, yt, more>>

\* the end of phase 1: the manual phase starts if the queue is not empty
TfAutoComplete ==
    /\ tf.pc = "auto" /\ tf.i > Len(tf.formats)
    /\ tf' = IF tf.manual_queue # <<>> THEN [tf EXCEPT !.pc = "manual"]
             ELSE [CloseDriver(tf) EXCEPT !.pc = "done"]
    /\ UNCHANGED <<core, etl, rc, yt, more>>

\* phase 2, one queued record: _get_title_manually returns a non-empty title for
\* the record's url, which is stored at titles[item["index"]]
TfManual ==
    /\ tf.pc = "manual" /\ tf.q <= Len(tf.manual_queue)
    /\ \E launched \in BOOLEAN :
          LET k == tf.manual_queue[tf.q]
              n == Len(tf.formats)
              at == ListPosition(IndexLabel(tf.labelling, k, n), n)
              t == InitDriver(tf, launched)
              asked == [t EXCEPT !.prompted = Append(@, k)]
          IN  tf' = IF t.pc = "raising" THEN TfRaise(t)
                    ELSE IF at = 0 THEN TfRaise(asked)
                    ELSE [asked EXCEPT !.titles[at] = "typed", !.owner[at] = k,
                                       !.q = @ + 1]
    /\ UNCHANGED <<core, etl, rc, yt, more>>

\* self.df["title"] = titles; return; finally close the driver
TfReturn ==
    /\ tf.pc = "manual" /\ tf.q > Len(tf.manual_queue)
    /\ tf' = [CloseDriver(tf) EXCEPT !.pc = "done"]
    /\ UNCHANGED <<core, etl, rc, yt, more>>

NextTitles ==
    \/ TfAuto
    \/ TfAutoComplete
    \/ TfManual
    \/ TfReturn

InitTitles == IdleCore /\ IdleEtl /\ InitTf /\ IdleRc /\ IdleYt /\ IdleMore

SpecTitles == InitTitles /\ [][NextTitles]_vars

Records(t) == 1..Len(t.formats)

C26_SessionUseIsBounded ==
    (tf.pc # "off" /\ tf.version = "modules") =>
        /\ \A s \in 1..Len(tf.served) : tf.served[s] <= tf.threshold
        /\ tf.driver # 0 => tf.use_count < tf.threshold
        /\ tf.driver # 0 => tf.served[tf.driver] = tf.use_count + 1
        /\ Cardinality(tf.live) <= 1
        /\ tf.live \subseteq {tf.driver}

\* a second session is in hand after the first served exactly threshold
\* operations
C26_Witness ==
    /\ tf.version = "modules" /\ tf.threshold = 2
    /\ tf.opened = 2 /\ tf.driver = 2 /\ tf.live = {2}
    /\ tf.served[1] = 2

----------------------------------------------------------------------------
(* Claims on run() and on the steps of phase 1 *)

\* C25: a call of run() in which no phase raises has entered each of the seven
\* phases exactly once, in the order 1..7, when it returns.
C25_RunEntersEachOfSevenPhasesOnce ==
    runStatus = "returned" => started = <<1, 2, 3, 4, 5, 6, 7>>

\* C29: in an invocation of phase 1 in which step 1.1 was skipped because its
\* checkpoint was found and step 1.2 found no checkpoint of its own, step 1.2
\* ends without raising, having read the step-1.1 report: it either did its work
\* or found the report missing.
C29_Step12RunsAfterSkippedStep11 ==
    (last.stage = "s12" /\ last.inv = inv /\ ~last.found /\ ~loc.msBound) =>
        /\ last.how = "returned"
        /\ last.worked \/ last.noInput

----------------------------------------------------------------------------
(* RegionCategoriser.get_region.  A response of the generation client is a
   sequence of tokens: "sp" (whitespace), "dq" (a double quote), "sq" (a single
   quote) or a word; a word is its lower-case text and the letter case it was
   written in: "listed" (spelled as CATEGORIES spells it, or in title case),
   "lower" or "upper". *)

MaxWraps == 3        \* layers of whitespace and quotes around the word of a response

CATEGORIES ==
    {
      "Global", "China", "East Asia", "Singapore", "Southeast Asia", "South Asia",
      "Central Asia", "Russia", "Oceania", "West Asia (Middle East)", "Africa",
      "Europe", "Latin America & Caribbean", "North America", "Unknown" }

\* cat.lower() for each cat in CATEGORIES
CategoryLower ==
    (
      "Global" :> "global" @@ "China" :> "china" @@ "East Asia" :> "east asia" @@
      "Singapore" :> "singapore" @@ "Southeast Asia" :> "southeast asia" @@
      "South Asia" :> "south asia" @@ "Central Asia" :> "central asia" @@
      "Russia" :> "russia" @@ "Oceania" :> "oceania" @@
      "West Asia (Middle East)" :> "west asia (middle east)" @@ "Africa" :> "africa" @@
      "Europe" :> "europe" @@
      "Latin America & Caribbean" :> "latin america & caribbean" @@
      "North America" :> "north america" @@ "Unknown" :> "unknown" )

CATEGORY_ALIASES ==
    (
      "us" :> "North America" @@ "usa" :> "North America" @@
      "united states" :> "North America" @@ "america" :> "North America" @@
      "canada" :> "North America" @@ "white house" :> "North America" @@
      "washington" :> "North America" @@ "uk" :> "Europe" @@ "britain" :> "Europe" @@
      "eu" :> "Europe" @@ "european union" :> "Europe" @@ "eurozone" :> "Europe" @@
      "ukraine" :> "Europe" @@ "brussels" :> "Europe" @@
      "latin america" :> "Latin America & Caribbean" @@
      "latam" :> "Latin America & Caribbean" @@
      "south america" :> "Latin America & Caribbean" @@
      "central america" :> "Latin America & Caribbean" @@
      "caribbean" :> "Latin America & Caribbean" @@
      "mexico" :> "Latin America & Caribbean" @@
      "brazil" :> "Latin America & Caribbean" @@
      "venezuela" :> "Latin America & Caribbean" @@
      "middle east" :> "West Asia (Middle East)" @@
      "mideast" :> "West Asia (Middle East)" @@
      "west asia" :> "West Asia (Middle East)" @@
      "gulf" :> "West Asia (Middle East)" @@ "gcc" :> "West Asia (Middle East)" @@
      "iran" :> "West Asia (Middle East)" @@ "israel" :> "West Asia (Middle East)" @@
      "palestine" :> "West Asia (Middle East)" @@
      "gaza" :> "West Asia (Middle East)" @@ "asean" :> "Southeast Asia" @@
      "indochina" :> "Southeast Asia" @@ "indonesia" :> "Southeast Asia" @@
      "malaysia" :> "Southeast Asia" @@ "philippines" :> "Southeast Asia" @@
      "thailand" :> "Southeast Asia" @@ "vietnam" :> "Southeast Asia" @@
      "northeast asia" :> "East Asia" @@ "japan" :> "East Asia" @@
      "korea" :> "East Asia" @@ "south korea" :> "East Asia" @@
      "north korea" :> "East Asia" @@ "dprk" :> "East Asia" @@
      "taiwan" :> "East Asia" @@ "india" :> "South Asia" @@
      "pakistan" :> "South Asia" @@ "indian subcontinent" :> "South Asia" @@
      "australia" :> "Oceania" @@ "new zealand" :> "Oceania" @@ "nz" :> "Oceania" @@
      "pacific islands" :> "Oceania" @@ "prc" :> "China" @@
      "mainland china" :> "China" @@ "beijing" :> "China" @@
      "russian federation" :> "Russia" @@ "moscow" :> "Russia" @@
      "world" :> "Global" @@ "international" :> "Global" @@ "un" :> "Global" @@
      "united nations" :> "Global" )

Tok(kind) == [kind |-> kind, text |-> "", case |-> ""]

Word(text, case) == [kind |-> "word", text |-> text, case |-> case]

\* the words tried: two aliases of the tests, a short alias, three categories
\* and a word that is neither
WordTexts ==
    { "west asia", "united states", "un", "west asia (middle east)", "russia",
      "unknown", "atlantis" }

LetterCases == {"listed", "lower", "upper"}

Reverse(s) == [k \in 1..Len(s) |-> s[Len(s) + 1 - k]]

\* every response tried: a word inside up to MaxWraps layers of whitespace and
\* quotes, and the empty string
Responses ==
    { w \o <<Word(t, c)>> \o Reverse(w) :
          w \in UNION { [1..n -> {Tok("sp"), Tok("dq"), Tok("sq")}] : n \in 0..MaxWraps },
          t \in WordTexts, c \in LetterCases }
    \cup { <<>> }

\* what llm_client.query does: it returns a string, returns None, or raises
Replies == {"text", "none", "raise"}

\* str.strip(chars): the leading and the trailing characters of that kind go
RECURSIVE StripLeft(_, _)
StripLeft(s, kind) ==
    IF s # <<>> /\ s[1].kind = kind THEN StripLeft(Tail(s), kind) ELSE s

StripOf(s, kind) == Reverse(StripLeft(Reverse(StripLeft(s, kind)), kind))

\* response.strip().strip('"').strip("'")
CleanResponse(s) == StripOf(StripOf(StripOf(s, "sp"), "dq"), "sq")

\* a lookup that takes the cleaned text as it is written
AliasKeyAsWritten(cleaned) ==
    IF Len(cleaned) = 1 /\ cleaned[1].kind = "word" /\ cleaned[1].case = "lower"
    THEN cleaned[1].text ELSE "?"

\* cleaned_category.lower(), for a text that is one word; any other text has
\* quotes or whitespace left in it, or is empty, and is no key of any table
AliasKey(cleaned) ==
    IF Len(cleaned) = 1 /\ cleaned[1].kind = "word" THEN cleaned[1].text ELSE "?"

\* cleaned_category in CATEGORIES
ExactCategory(cleaned) ==
    /\ Len(cleaned) = 1 /\ cleaned[1].kind = "word" /\ cleaned[1].case = "listed"
    /\ \E cat \in CATEGORIES : CategoryLower[cat] = cleaned[1].text

\* the body of the try block of get_region
Normalise(response) ==
    LET cleaned == CleanResponse(response)
        key == AliasKey(cleaned)
    IN  IF key \in DOMAIN CATEGORY_ALIASES THEN CATEGORY_ALIASES[key]
        ELSE IF ExactCategory(cleaned)
             THEN CHOOSE cat \in CATEGORIES : CategoryLower[cat] = cleaned[1].text
        ELSE IF \E cat \in CATEGORIES : CategoryLower[cat] = key
             THEN CHOOSE cat \in CATEGORIES : CategoryLower[cat] = key
        ELSE "Unknown"

get_region(text, reply, response) ==
    IF text = "" THEN "Unknown"
    ELSE IF reply # "text" THEN "Unknown"
    ELSE Normalise(response)

InitRc ==
    \E text \in {"", "Title: x"}, reply \in Replies, response \in Responses :
        /\ reply # "text" => response = <<>>
        /\ rc = [pc |-> "called", text |-> text, reply |-> reply,
                 response |-> response, queried |-> FALSE, result |-> ""]

\* one call of get_region
RcGetRegion ==
    /\ rc.pc = "called"
    /\ rc' = [rc EXCEPT !.pc = "done", !.queried = rc.text # "",
                        !.result = get_region(rc.text, rc.reply, rc.response)]
    /\ UNCHANGED <<core, etl, tf, yt, more>>

NextRegion == RcGetRegion

InitRegion == IdleCore /\ IdleEtl /\ IdleTf /\ InitRc /\ IdleYt /\ IdleMore

SpecRegion == InitRegion /\ [][NextRegion]_vars

\* the word of a response and what surrounds it, read off the response itself
CoreWord(response) == response[(Len(response) + 1) \div 2]

\* the word alone, or inside whitespace, or inside one kind of quotes, or inside
\* quotes inside whitespace
PlainlyWrapped(response) ==
    /\ response # <<>>
    /\ LET w == SubSeq(response, 1, (Len(response) - 1) \div 2)
       IN  \/ \A k \in 1..Len(w) : w[k].kind = "sp"
           \/ \A k \in 1..Len(w) : w[k].kind = "dq"
           \/ \A k \in 1..Len(w) : w[k].kind = "sq"
           \/ \E n \in 1..Len(w) :
                 /\ \A k \in 1..n : w[k].kind = "sp"
                 /\ \/ \A k \in (n + 1)..Len(w) : w[k].kind = "dq"
                    \/ \A k \in (n + 1)..Len(w) : w[k].kind = "sq"

Recognised(text) ==
    text \in DOMAIN CATEGORY_ALIASES \/ \E cat \in CATEGORIES : CategoryLower[cat] = text

\* C27: for every text and every response of the generation client (any word in
\* any letter case, with or without surrounding quotes and whitespace, no string,
\* or an exception) get_region returns a member of CATEGORIES; an alias, in any
\* letter case, maps to its canonical category ("West Asia" to "West Asia (Middle
\* East)", "united states" to "North America"), a category name in any letter
\* case maps to the category, and an unrecognised response, a missing response
\* and an empty text map to "Unknown".
C27_RegionIsAlwaysACategory ==
    (rc.pc = "done") =>
        /\ rc.result \in CATEGORIES
        /\ (rc.text = "" \/ rc.reply # "text" \/ rc.response = <<>>) => rc.result = "Unknown"
        /\ (rc.text # "" /\ rc.reply = "text" /\ rc.response # <<>>) =>
              LET word == CoreWord(rc.response)
              IN  /\ ~Recognised(word.text) => rc.result = "Unknown"
                  /\ rc.result # "Unknown" => 
                        \/ (word.text \in DOMAIN CATEGORY_ALIASES
                                /\ rc.result = CATEGORY_ALIASES[word.text])
                        \/ CategoryLower[rc.result] = word.text
                  /\ PlainlyWrapped(rc.response) =>
                        /\ word.text \in DOMAIN CATEGORY_ALIASES =>
                              rc.result = CATEGORY_ALIASES[word.text]
                        /\ (\E cat \in CATEGORIES : CategoryLower[cat] = word.text) =>
                              CategoryLower[rc.result] = word.text
                        /\ word.text = "west asia" => rc.result = "West Asia (Middle East)"
                        /\ word.text = "united states" => rc.result = "North America"

\* the alias "West Asia", written in title case inside double quotes, has been
\* mapped to its category
C27_Witness ==
    /\ rc.pc = "done" /\ rc.queried
    /\ rc.response = <<Tok("dq"), Word("west asia", "listed"), Tok("dq")>>
    /\ rc.result = "West Asia (Middle East)"

----------------------------------------------------------------------------
(* YoutubeTranscriptApiHandler: the getters over self.data.  A response item is
   described by which of its keys are present; the value of a key that should
   hold a dict is "absent", "null" (present, not a dict) or "dict". *)

Shapes == {"absent", "null", "dict"}

\* a key whose value is a string: "absent" or "value"
Leaves == {"absent", "value"}

\* the items tried: every combination of present keys; what lies under a value
\* that is no dict is left out
Items ==
    { it \in [title : Leaves, id : Leaves, text : Leaves, microformat : Shapes,
              playerMicroformatRenderer : Shapes, description : Shapes,
              simpleText : Leaves, ownerChannelName : Leaves, publishDate : Leaves] :
        /\ it.microformat # "dict" => it.playerMicroformatRenderer = "absent"
        /\ it.playerMicroformatRenderer # "dict" =>
              /\ it.description = "absent"
              /\ it.ownerChannelName = "absent" /\ it.publishDate = "absent"
        /\ it.description # "dict" => it.simpleText = "absent" }

\* self.data: a list with one item, an empty list, or no list at all
DataShapes == {"list", "empty", "not_a_list"}

Getters ==
    { "get_video_id_from_response", "get_transcript_text", "get_video_title",
      "get_video_description", "get_channel_name", "get_publish_date" }

Returned == [kind |-> "return", named |-> {}]

Raised(kind, named) == [kind |-> kind, named |-> named]

\* a lookup in the manner of dict.get: a missing key gives a default value
MissingKeyDefault(named) == Returned

\* raise KeyError(...), with the key names its message quotes
MissingKey(named) == Raised("KeyError", named)

\* "key" in value, for a value that may be no dict
Contains(shape) == shape # "absent"

\* _get_microformat_renderer, after _get_first_item: "ok" or what it raises
MicroformatRenderer(it) ==
    IF ~Contains(it.microformat) THEN MissingKey({"microformat"})
    ELSE IF it.microformat = "null" THEN Raised("TypeError", {})
    ELSE IF ~Contains(it.playerMicroformatRenderer)
         THEN MissingKey({"playerMicroformatRenderer"})
    ELSE Returned

\* a getter that reads one key of the item
TopLevelGetter(it, key) == IF Contains(it[key]) THEN Returned ELSE MissingKey({key})

\* a getter that reads one key of the renderer
RendererGetter(it, key) ==
    LET r == MicroformatRenderer(it)
    IN  IF r.kind # "return" THEN r
        ELSE IF it.playerMicroformatRenderer = "null" THEN Raised("TypeError", {})
        ELSE IF ~Contains(it[key]) THEN MissingKey({key})
        ELSE Returned

get_video_description(it) ==
    LET r == MicroformatRenderer(it)
    IN  IF r.kind # "return" THEN r
        ELSE IF it.playerMicroformatRenderer = "null" THEN Raised("TypeError", {})
        ELSE IF ~Contains(it.description) THEN MissingKey({"description", "simpleText"})
        ELSE IF it.description = "null" THEN Raised("TypeError", {})
        ELSE IF ~Contains(it.simpleText) THEN MissingKey({"description", "simpleText"})
        ELSE Returned

CallGetter(data, it, getter) ==
    IF data # "list" THEN Raised("ValueError", {})
    ELSE CASE getter = "get_video_id_from_response" -> TopLevelGetter(it, "id")
           [] getter = "get_transcript_text" -> TopLevelGetter(it, "text")
           [] getter = "get_video_title" -> TopLevelGetter(it, "title")
           [] getter = "get_video_description" -> get_video_description(it)
           [] getter = "get_channel_name" -> RendererGetter(it, "ownerChannelName")
           [] getter = "get_publish_date" -> RendererGetter(it, "publishDate")

NoItem == CHOOSE it \in Items : \A k \in DOMAIN it : it[k] = "absent"

InitYt ==
    \E data \in DataShapes, it \in Items :
        /\ data # "list" => it = NoItem
        /\ yt = [pc |-> "built", data |-> data, item |-> it, getter |-> "none",
                 result |-> Returned]

\* one getter is called on the handler
YtCall ==
    /\ yt.pc = "built"
    /\ \E g \in Getters :
          yt' = [yt EXCEPT !.pc = "called", !.getter = g,
                           !.result = CallGetter(yt.data, yt.item, g)]
    /\ UNCHANGED <<core, etl, tf, rc, more>>

NextHandler == YtCall

InitHandler == IdleCore /\ IdleEtl /\ IdleTf /\ IdleRc /\ InitYt /\ IdleMore

SpecHandler == InitHandler /\ [][NextHandler]_vars

\* the keys a getter reads, from the item inwards
GetterPath(getter) ==
    CASE getter = "get_video_id_from_response" -> <<"id">>
      [] getter = "get_transcript_text" -> <<"text">>
      [] getter = "get_video_title" -> <<"title">>
      [] getter = "get_video_description" ->
            <<"microformat", "playerMicroformatRenderer", "description", "simpleText">>
      [] getter = "get_channel_name" ->
            <<"microformat", "playerMicroformatRenderer", "ownerChannelName">>
      [] getter = "get_publish_date" ->
            <<"microformat", "playerMicroformatRenderer", "publishDate">>

Present(it, key) == it[key] # "absent"

\* the first key of the path that the item does not hold, 0 if it holds them all
FirstMissing(it, path) ==
    IF \A k \in 1..Len(path) : Present(it, path[k]) THEN 0
    ELSE CHOOSE k \in 1..Len(path) :
            ~Present(it, path[k]) /\ \A j \in 1..(k - 1) : Present(it, path[j])

\* C28: a getter called on a response item that lacks a key the getter needs
\* (title, id, text, microformat or a key inside it) raises KeyError with a message
\* that names the missing key, unless a value above that key is no dict, in which
\* case it raises as well; a getter returns only when every key it needs is
\* present.
C28_MissingKeyRaisesKeyError ==
    (yt.pc = "called" /\ yt.data = "list") =>
        LET path == GetterPath(yt.getter)
            m == FirstMissing(yt.item, path)
        IN  /\ yt.result.kind = "return" => m = 0
            /\ (m # 0 /\ \A j \in 1..(m - 1) : yt.item[path[j]] # "null") =>
                  /\ yt.result.kind = "KeyError"
                  /\ path[m] \in yt.result.named

\* get_channel_name was called on an item without "microformat" and raised the
\* KeyError that names it
C28_Witness ==
    /\ yt.pc = "called" /\ yt.data = "list" /\ yt.getter = "get_channel_name"
    /\ yt.item.text = "value" /\ yt.item.title = "absent" /\ yt.item.id = "absent"
    /\ yt.item.microformat = "absent"
    /\ yt.result = [kind |-> "KeyError", named |-> {"microformat"}]

\* C30: within one ContentSummarizer.summarize(url) call the first video tier,
\* once it has failed on the error it does not retry, is not attempted again: at
\* most one such failure happens per call.
C30_FailedFastTierIsNotAttemptedAgain ==
    (sm.pc # "off" /\ sm.path = "summarize") => sm.failedFast <= 1

----------------------------------------------------------------------------
(* Checkpoint and report of a stage *)

\* C31: whenever the checkpoint a stage saves exists in the workspace, the
\* report of that stage exists there too.  Stated for the points at which no
\* stage is between its two saves (the process is idle, or was terminated and
\* may be restarted), which is the weakest reading of "at every point".
C31_CheckpointImpliesReport ==
    pc \in {Idle, Dead} =>
        \A s \in CheckpointedStages :
            FileExists(fs, CheckpointFileName(SaveKey(s)))
                => FileExists(fs, ReportFile(s))

----------------------------------------------------------------------------
(* SummarizationService.run_batch_summarization and its JSONL checkpoint *)

MaxLines == 2        \* lines of the checkpoint file before the first call
MaxBatchRows == 2    \* rows of the input CSV
MaxBatchCalls == 2   \* calls of run_batch_summarization on the same files

BatchUrls == {"u1", "u2"}

\* an Article as far as the batch tells articles apart: its url, which write
\* produced it, and whether its summary is a generated text or a failure mark
ArticleOf(u, ver, summary) == [url |-> u, ver |-> ver, summary |-> summary]
NoArticle == ArticleOf("", "", "")

\* one line of the checkpoint file: an article written by asdict + json.dumps,
\* a line json.loads rejects, a line of valid JSON that Article(**data) rejects,
\* or the unterminated rest of a write that was cut short
Line(kind, a) == [kind |-> kind, article |-> a]
CorruptLine == Line("corrupt", NoArticle)
FieldsLine == Line("fields", NoArticle)
PartialLine == Line("partial", NoArticle)

InitialLines ==
    { Line("article", ArticleOf(u, v, "generated")) : u \in BatchUrls, v \in {"a", "b"} }
    \cup {CorruptLine, FieldsLine}

EmptyCache == [u \in BatchUrls |-> NoArticle]

\* _load_checkpoint from line k on: a JSONDecodeError skips the line; any other
\* exception is caught outside the for loop, which ends the reading
RECURSIVE LoadFrom(_, _, _)
LoadFrom(file, k, cache) ==
    IF k > Len(file) THEN cache
    ELSE LET line == file[k]
         IN  CASE line.kind \in {"corrupt", "partial"} -> LoadFrom(file, k + 1, cache)
               [] line.kind = "fields" -> cache
               [] OTHER ->
                    LoadFrom(file, k + 1, [cache EXCEPT ![line.article.url] = line.article])

\* SummarizationService._load_checkpoint; a file that does not exist is the
\* file without lines
load_checkpoint(file) == LoadFrom(file, 1, EmptyCache)

\* open(path, "a") ... f.write(line + "\n"): the text lands behind the last
\* byte of the file, on the same line when that line was never terminated
WriteLine(file, line) ==
    IF Len(file) > 0 /\ file[Len(file)].kind = "partial"
    THEN IF line.kind = "partial" THEN file ELSE [file EXCEPT ![Len(file)] = CorruptLine]
    ELSE Append(file, line)

BsStart(file, rows) ==
    [pc |-> "idle", file |-> file, atCall |-> file, cache |-> EmptyCache, rows |-> rows,
     i |-> 1, out |-> <<>>, sufficient |-> FALSE, cur |-> NoArticle,
     extracted |-> [u \in BatchUrls |-> 0], generated |-> [u \in BatchUrls |-> 0],
     done |-> {}, appendFailed |-> FALSE, calls |-> 0]

InitBs ==
    \E file \in UNION { [1..n -> InitialLines] : n \in 0..MaxLines },
       rows \in UNION { [1..n -> BatchUrls \cup {""}] : n \in 1..MaxBatchRows } :
        bs = BsStart(file, rows)

\* run_batch_summarization up to the processing loop: the cache is loaded, the
\* generator selected, the CSV read and grouped
BsCall ==
    /\ bs.pc \in {"idle", "returned", "raised", "dead"}
    /\ bs.calls < MaxBatchCalls
    /\ bs' = [bs EXCEPT !.pc = "row", !.calls = @ + 1, !.atCall = bs.file,
                        !.cache = load_checkpoint(bs.file), !.i = 1, !.out = <<>>,
                        !.cur = NoArticle, !.sufficient = FALSE,
                        !.extracted = [u \in BatchUrls |-> 0],
                        !.generated = [u \in BatchUrls |-> 0]]
    /\ UNCHANGED <<core, etl, tf, rc, yt, rt, cv>>

\* the head of the loop body: a row without url is passed over, a cached url
\* takes its article from the cache, any other url goes to the extractor; after
\* the last row the report is built and the artifacts are returned
BsRow ==
    /\ bs.pc = "row"
    /\ IF bs.i > Len(bs.rows)
       THEN bs' = [bs EXCEPT !.pc = "returned"]
       ELSE LET url == bs.rows[bs.i]
            IN  IF url = ""
                THEN bs' = [bs EXCEPT !.i = @ + 1]
                ELSE IF bs.cache[url] # NoArticle
                THEN bs' = [bs EXCEPT !.i = @ + 1,
                                      !.out = Append(@, bs.cache[url])]
                ELSE bs' = [bs EXCEPT !.pc = "extract"]
    /\ UNCHANGED <<core, etl, tf, rc, yt, rt, cv>>

\* raw_text = self.extractor.get_text(url); article = Article(...)
BsExtract ==
    /\ bs.pc = "extract"
    /\ \E g \in GetTextCalls :
          LET url == bs.rows[bs.i]
              b == [bs EXCEPT !.extracted[url] = @ + 1]
          IN  bs' = IF g.result = TypeError
                    THEN [b EXCEPT !.pc = "raised"]
                    ELSE [b EXCEPT !.pc = "generate", !.sufficient = Sufficient(g.result)]
    /\ UNCHANGED <<core, etl, tf, rc, yt, rt, cv>>

\* enriched_article = generator.generate(article): a summary, or the failure
\* mark for short content and for any exception of the query
BsGenerate ==
    /\ bs.pc = "generate"
    /\ LET url == bs.rows[bs.i]
           b == [bs EXCEPT !.pc = "append", !.sufficient = FALSE]
       IN  IF ~bs.sufficient
           THEN bs' = [b EXCEPT !.cur = ArticleOf(url, "new", "failed")]
           ELSE \E s \in {"generated", "failed"} :
                   bs' = [b EXCEPT !.cur = ArticleOf(url, "new", s),
                                   !.generated[url] = @ + 1]
    /\ UNCHANGED <<core, etl, tf, rc, yt, rt, cv>>

\* self._append_to_checkpoint(...), which logs and swallows every exception;
\* processed_cache[url] = enriched_article; group_articles.append(...)
BsAppend ==
    /\ bs.pc = "append"
    /\ LET url == bs.rows[bs.i]
           b == [bs EXCEPT !.pc = "row", !.i = @ + 1, !.cur = NoArticle,
                           !.cache[url] = bs.cur, !.out = Append(@, bs.cur)]
       IN  \/ bs' = [b EXCEPT !.file = WriteLine(bs.file, Line("article", bs.cur)),
                              !.done = @ \cup {url}]
           \/ bs' = [b EXCEPT !.appendFailed = TRUE]
    /\ UNCHANGED <<core, etl, tf, rc, yt, rt, cv>>

\* the process ends at any point of a call; an end inside f.write can leave the
\* beginning of the line in the file
BsTerminate ==
    /\ bs.pc \in {"row", "extract", "generate", "append"}
    /\ \/ bs' = [bs EXCEPT !.pc = "dead"]
       \/ /\ bs.pc = "append"
          /\ bs' = [bs EXCEPT !.pc = "dead", !.file = WriteLine(@, PartialLine)]
    /\ UNCHANGED <<core, etl, tf, rc, yt, rt, cv>>

NextBatch ==
    \/ BsCall
    \/ BsRow
    \/ BsExtract
    \/ BsGenerate
    \/ BsAppend
    \/ BsTerminate

InitBatch == IdleCore /\ IdleEtl /\ IdleTf /\ IdleRc /\ IdleYt /\ InitBs /\ IdleRt /\ IdleCv

SpecBatch == InitBatch /\ [][NextBatch]_vars

\* the article of the last well-formed line of the file for the url, if any
RECURSIVE LastWellFormed(_, _)
LastWellFormed(file, u) ==
    IF file = <<>> THEN NoArticle
    ELSE LET line == file[Len(file)]
         IN  IF line.kind = "article" /\ line.article.url = u
             THEN line.article
             ELSE LastWellFormed(SubSeq(file, 1, Len(file) - 1), u)

\* C34: _load_checkpoint returns, and its cache holds for every url the last
\* well-formed article line of the file, whatever the other lines are.
C34_EveryWellFormedLineIsLoaded ==
    (bs.pc = "row" /\ bs.i = 1) =>
        \A u \in BatchUrls : bs.cache[u] = LastWellFormed(bs.atCall, u)

\* C32: within one call a url that has a well-formed line in the checkpoint is
\* never extracted or generated and its output is the article of that line;
\* no url is extracted or generated twice, and a url met again gets the
\* article it got the first time.
C32_CachedUrlsAreNotProcessedAgain ==
    bs.pc # "off" =>
        /\ \A u \in BatchUrls :
              /\ bs.extracted[u] <= 1 /\ bs.generated[u] <= 1
              /\ LastWellFormed(bs.atCall, u) # NoArticle
                    => bs.extracted[u] = 0 /\ bs.generated[u] = 0
        /\ \A k \in 1..Len(bs.out) :
              /\ LastWellFormed(bs.atCall, bs.out[k].url) # NoArticle
                    => bs.out[k] = LastWellFormed(bs.atCall, bs.out[k].url)
              /\ \A j \in 1..k : bs.out[j].url = bs.out[k].url => bs.out[j] = bs.out[k]

\* C33: every article whose append has returned without a logged failure can be
\* read back from the checkpoint file, so that a termination loses the article
\* in progress only.  Stated for files all of whose lines the loader gets past.
C33_AppendedArticlesSurviveTermination ==
    (bs.pc # "off" /\ ~bs.appendFailed /\ \A k \in 1..Len(bs.file) : bs.file[k] # FieldsLine)
        => \A u \in bs.done : load_checkpoint(bs.file)[u] # NoArticle

----------------------------------------------------------------------------
(* Final assembly *)

\* the inputs of phase 7 are complete on the disk: both checkpoints load and
\* the stage-3 CSV exists
AssemblyInputsComplete(disk) ==
    /\ \A k \in WsKeys : LoadCheckpointJson(disk, k).kind = "dict"
    /\ disk[STAGE_03_CSV].kind # "absent"

\* C35: a call of run_phase_7_final_assembly on a workspace where the phase-5 or
\* phase-6 checkpoint does not load (missing or corrupt) or the stage-3 CSV is
\* missing raises ValueError and writes nothing; a post is written only from
\* complete inputs.
C35_NoPostFromPartialInputs ==
    [][ (ws'.op.name = "phase7" /\ ws'.op # ws.op /\ ~AssemblyInputsComplete(ws.disk))
            => (ws'.op.out = "ValueError" /\ ws'.disk = ws.disk) ]_vars

\* C35 witness: phase 7 has raised ValueError on a workspace whose phase-6
\* checkpoint loads, whose CSV exists and whose phase-5 checkpoint is corrupt,
\* and there is no final post.
C35_Witness ==
    /\ ws.pc = "on" /\ ws.op.name = "phase7" /\ ws.op.out = "ValueError"
    /\ ws.disk[CheckpointFileName("p5_global_briefing")].kind = "corrupt"
    /\ LoadCheckpointJson(ws.disk, "p6_multi_lens_analysis").kind = "dict"
    /\ ws.disk[STAGE_03_CSV].kind # "absent"
    /\ ws.disk[FINAL_POST].kind = "absent"

----------------------------------------------------------------------------
(* Checkpoint round trip of GlobalBriefing and MultiLensAnalysis *)

MaxEntries == 2      \* entries of the object that is saved

\* an instance of a dataclass, or the dict asdict makes of it
Obj(cls, fields) == [cls |-> cls, fields |-> fields]

\* datetime values: time of day, microseconds (omitted from the text when zero)
\* and UTC offset (absent for a naive datetime)
Datetimes ==
    [time : {"00:00:00", "12:30:00"}, micro : {"", ".000123"}, tz : {"", "+00:00"}]

RtRunDate == [time |-> "09:00:00", micro |-> "", tz |-> ""]

\* str(datetime) = isoformat(sep=" "), as the pieces of the text
DatetimeStr(d) ==
    <<"2025-01-05", " ", d.time>>
        \o (IF d.micro = "" THEN <<>> ELSE <<d.micro>>)
        \o (IF d.tz = "" THEN <<>> ELSE <<d.tz>>)

\* the separator between date and time that fromisoformat takes: any character
SeparatorAccepted(c) == TRUE

\* datetime.fromisoformat on the pieces of a text: the date, then optionally a
\* separator and the time, a fraction, an offset; ValueError for anything else
InvalidIsoformat == [time |-> "ValueError", micro |-> "", tz |-> ""]

fromisoformat(s) ==
    LET n == Len(s)
        hasMicro == n >= 4 /\ s[4] \in {d.micro : d \in Datetimes} \ {""}
        tzAt == IF hasMicro THEN 5 ELSE 4
    IN  IF n = 0 \/ s[1] # "2025-01-05" THEN InvalidIsoformat
        ELSE IF n = 1 THEN [time |-> "00:00:00", micro |-> "", tz |-> ""]
        ELSE IF n = 2 \/ ~SeparatorAccepted(s[2]) \/ s[3] \notin {d.time : d \in Datetimes}
        THEN InvalidIsoformat
        ELSE IF n > tzAt \/ (n = tzAt /\ s[n] # "+00:00") THEN InvalidIsoformat
        ELSE [time |-> s[3], micro |-> IF hasMicro THEN s[4] ELSE "",
              tz |-> IF n = tzAt THEN s[n] ELSE ""]

RtRegions == {"China", "Russia"}

RegionalBriefingEntries ==
    { Obj("RegionalBriefingEntry",
          [region |-> r, mainstream_narrative |-> "narrative",
           strategic_analysis |-> "analysis"]) : r \in RtRegions }

LensLists ==
    { <<Obj("LensAnalysis", [lens_name |-> "Lens A", analysis_text |-> "text"])>>,
      <<Obj("LensAnalysis", [lens_name |-> "Lens A", analysis_text |-> "text"]),
        Obj("LensAnalysis", [lens_name |-> "Lens B", analysis_text |-> "text"])>> }

MultiLensRegionEntries ==
    { Obj("MultiLensRegionEntry", [region |-> r, lenses |-> l]) :
          r \in RtRegions, l \in LensLists }

\* the objects of phases 5 and 6
Briefings ==
    { Obj("GlobalBriefing", [entries |-> es, date |-> d]) :
          es \in UNION { [1..n -> RegionalBriefingEntries] : n \in 0..MaxEntries },
          d \in Datetimes }
    \cup { Obj("MultiLensAnalysis", [entries |-> es, date |-> d]) :
          es \in UNION { [1..n -> MultiLensRegionEntries] : n \in 0..MaxEntries },
          d \in Datetimes }

\* dataclasses.asdict on the instances inside a list
AsDictList(l) == [i \in 1..Len(l) |-> Obj("dict", l[i].fields)]

\* dataclasses.asdict followed by json.dump(..., default=str): instances become
\* dicts at every level, the datetime becomes its str()
DumpedDict(x) ==
    LET entry(e) ==
            IF x.cls = "MultiLensAnalysis"
            THEN Obj("dict", [e.fields EXCEPT !.lenses = AsDictList(@)])
            ELSE Obj("dict", e.fields)
    IN  Obj("dict", [entries |-> [i \in 1..Len(x.fields.entries) |->
                                     entry(x.fields.entries[i])],
                     date |-> DatetimeStr(x.fields.date)])

\* a reconstruction that leaves the dict as it was loaded
RebuildAsLoaded(cls, d) == d

\* Cls(**d): the instance of the class with the dict's items as its fields
Rebuild(cls, d) == Obj(cls, d.fields)

\* date_val = data.get("date"); datetime.fromisoformat(date_val) if date_val
\* else self.run_date
RebuildDate(data) ==
    IF data.fields.date = <<>> THEN RtRunDate ELSE fromisoformat(data.fields.date)

\* WeeklyIntelOrchestrator._reconstruct_global_briefing
reconstruct_global_briefing(data) ==
    LET es == data.fields.entries
        date == RebuildDate(data)
    IN  IF date = InvalidIsoformat THEN Obj("ValueError", <<>>)
        ELSE Obj("GlobalBriefing",
                 [entries |-> [i \in 1..Len(es) |-> Rebuild("RegionalBriefingEntry", es[i])],
                  date |-> date])

\* WeeklyIntelOrchestrator._reconstruct_multi_lens_analysis
reconstruct_multi_lens_analysis(data) ==
    LET es == data.fields.entries
        lenses(e) == [j \in 1..Len(e.fields.lenses) |->
                         Rebuild("LensAnalysis", e.fields.lenses[j])]
        date == RebuildDate(data)
    IN  IF date = InvalidIsoformat THEN Obj("ValueError", <<>>)
        ELSE Obj("MultiLensAnalysis",
                 [entries |-> [i \in 1..Len(es) |->
                                  Obj("MultiLensRegionEntry",
                                      [region |-> es[i].fields.region,
                                       lenses |-> lenses(es[i])])],
                  date |-> date])

NoObj == Obj("None", <<>>)

InitRt ==
    \E x \in Briefings :
        rt = [pc |-> "new", x |-> x, file |-> NoObj, data |-> NoObj, y |-> NoObj,
              raised |-> ""]

\* save_checkpoint(key, x): the file holds the dumped dict, or the write fails
\* and the error is logged
RtSave ==
    /\ rt.pc = "new"
    /\ \/ rt' = [rt EXCEPT !.pc = "saved", !.file = DumpedDict(rt.x)]
       \/ rt' = [rt EXCEPT !.pc = "save_failed"]
    /\ UNCHANGED <<core, etl, tf, rc, yt, bs, cv>>

\* load_checkpoint_json(key): the dict of the file, None without a file
RtLoad ==
    /\ rt.pc \in {"saved", "save_failed"}
    /\ rt' = [rt EXCEPT !.pc = IF rt.pc = "saved" THEN "loaded" ELSE "not_loaded",
                        !.data = rt.file]
    /\ UNCHANGED <<core, etl, tf, rc, yt, bs, cv>>

\* the _reconstruct_* function of the object's class on the loaded data; on
\* None the first data.get raises AttributeError
RtReconstruct ==
    /\ rt.pc \in {"loaded", "not_loaded"}
    /\ LET y == IF rt.pc = "not_loaded" THEN Obj("AttributeError", <<>>)
                ELSE IF rt.x.cls = "GlobalBriefing"
                THEN reconstruct_global_briefing(rt.data)
                ELSE reconstruct_multi_lens_analysis(rt.data)
       IN  rt' = IF y.cls \in {"ValueError", "AttributeError"}
                 THEN [rt EXCEPT !.pc = "raised", !.raised = y.cls]
                 ELSE [rt EXCEPT !.pc = "returned", !.y = y]
    /\ UNCHANGED <<core, etl, tf, rc, yt, bs, cv>>

NextRoundTrip ==
    \/ RtSave
    \/ RtLoad
    \/ RtReconstruct

InitRoundTrip == IdleCore /\ IdleEtl /\ IdleTf /\ IdleRc /\ IdleYt /\ IdleBs /\ InitRt /\ IdleCv

SpecRoundTrip == InitRoundTrip /\ [][NextRoundTrip]_vars

\* C36: once the checkpoint of x has been saved and loaded, the matching
\* _reconstruct_* function returns, and what it returns has the entries of x in
\* the order of x and the date of x.
C36_CheckpointRoundTrip ==
    (rt.pc \in {"returned", "raised"} /\ rt.file.cls # "None") =>
        /\ rt.pc = "returned"
        /\ rt.y.cls = rt.x.cls
        /\ rt.y.fields.entries = rt.x.fields.entries
        /\ rt.y.fields.date = rt.x.fields.date

\* C36 witness: a multi-lens analysis with two entries, one of them with two
\* lenses, and an aware datetime with microseconds has made the round trip.
C36_Witness ==
    /\ rt.pc = "returned"
    /\ rt.x.cls = "MultiLensAnalysis"
    /\ Len(rt.x.fields.entries) = 2
    /\ \E i \in 1..2 : Len(rt.x.fields.entries[i].fields.lenses) = 2
    /\ rt.x.fields.date.micro # "" /\ rt.x.fields.date.tz # ""
    /\ rt.y = rt.x

----------------------------------------------------------------------------
(* Pass-through of the region validators *)

\* the canonical list the validator of the stage works from
RequiredOf(stage) ==
    IF stage = "mainstream" THEN MAINSTREAM_REQUIRED_REGIONS ELSE REQUIRED_REGIONS

\* C37: _validate_and_fill_regions returns, for every canonical region that was
\* parsed, the parsed entry itself, the last one when the region was parsed more
\* than once, and exactly one entry per canonical region; a parsed entry whose
\* region is not canonical is in the result under no key.
C37_ParsedCanonicalEntriesPassThrough ==
    (syn.pc = "done" /\ syn.validated) =>
        LET req == RequiredOf(syn.stage)
            parsed == syn.parsed
        IN  /\ Len(syn.out) = Len(req)
            /\ \A i \in 1..Len(req) :
                  /\ syn.out[i].region = req[i]
                  /\ \A k \in 1..Len(parsed) :
                        (/\ parsed[k].region = req[i]
                         /\ \A j \in (k + 1)..Len(parsed) : parsed[j].region # req[i])
                            => syn.out[i] = parsed[k]
            /\ \A k \in 1..Len(parsed) :
                  parsed[k].region \notin Range(req)
                      => \A i \in 1..Len(syn.out) : syn.out[i].region # parsed[k].region

\* C37 witness: the generator emitted "Global" twice with different content and
\* a section for a region that is not canonical; the validator returned the
\* second "Global" entry.
C37_Witness ==
    /\ syn.pc = "done" /\ syn.validated
    /\ \E j, k \in 1..Len(syn.parsed) :
          /\ j < k
          /\ syn.parsed[j].region = "Global" /\ syn.parsed[k].region = "Global"
          /\ syn.parsed[j].body # syn.parsed[k].body
          /\ \A m \in (k + 1)..Len(syn.parsed) : syn.parsed[m].region # "Global"
          /\ syn.out[1] = syn.parsed[k]
    /\ \E m \in 1..Len(syn.parsed) : syn.parsed[m].region = "Atlantis"

----------------------------------------------------------------------------
(* The titles fetch_all_titles returns, and the sessions it leaves *)

\* C38: when fetch_all_titles returns, every row has a title, and the title of
\* each row is the one resolved for the url of that row, however the rows of
\* the input frame are labelled.
C38_EveryRowHasItsOwnTitle ==
    tf.pc = "done" =>
        \A k \in Records(tf) : tf.titles[k] # NoTitle /\ tf.owner[k] = k

\* C39: when fetch_all_titles has returned or raised, no session that the
\* fetcher opened is still open.
C39_NoSessionLeftOpen ==
    tf.pc \in {"done", "raised"} => tf.live = {}

\* C39 witness: the session-reusing fetcher had a session open when an exception
\* left fetch_all_titles, and the session is closed.
C39_Witness ==
    /\ tf.pc = "raised" /\ tf.version = "modules"
    /\ tf.opened >= 1 /\ tf.served[tf.opened] >= 1
    /\ tf.live = {}

----------------------------------------------------------------------------
(* CSVHandler.append_records on one file path *)

MaxCsvCalls == 3     \* append_records calls on the path
MaxCsvRecords == 2   \* records handed to one call

\* a record is a dict: its keys in insertion order, and its values
CsvRecord(keys, tag) == [keys |-> keys, tag |-> tag]

CsvRecords ==
    { CsvRecord(ks, t) : ks \in {<<"a", "b">>, <<"b", "a">>, <<"a">>}, t \in {"x", "y"} }

\* the value of the record under a column; a column the record lacks is NaN,
\* which to_csv writes as the empty cell
Cell(r, col) ==
    IF \E i \in 1..Len(r.keys) : r.keys[i] = col THEN <<col, r.tag>> ELSE <<>>

\* the keys of a list in the order of their first appearance
RECURSIVE FirstAppearance(_, _)
FirstAppearance(keys, seen) ==
    IF keys = <<>> THEN seen
    ELSE FirstAppearance(Tail(keys),
                         IF \E i \in 1..Len(seen) : seen[i] = Head(keys)
                         THEN seen ELSE Append(seen, Head(keys)))

RECURSIVE AllKeys(_)
AllKeys(records) ==
    IF records = <<>> THEN <<>> ELSE Head(records).keys \o AllKeys(Tail(records))

\* pd.DataFrame(records).columns
Columns(records) == FirstAppearance(AllKeys(records), <<>>)

HeaderLine(cols) == [kind |-> "header", cells |-> cols]
RowLine(r, cols) == [kind |-> "row", cells |-> [i \in 1..Len(cols) |-> Cell(r, cols[i])]]

\* header=not file_exists
HeaderWanted(file_exists) == ~file_exists

\* df.to_csv(filepath, mode="a", header=..., index=False): the lines written
\* for the frame of this call, in the column order of this call
ToCsv(records, header) ==
    LET cols == Columns(records)
    IN  (IF header THEN <<HeaderLine(cols)>> ELSE <<>>)
            \o [i \in 1..Len(records) |-> RowLine(records[i], cols)]

\* the path does not exist
NoFile == <<[kind |-> "absent", cells |-> <<>>]>>

isfile(file) == file # NoFile

InitCv ==
    cv = [pc |-> "on", file |-> NoFile, appended |-> <<>>, calls |-> 0,
          last |-> "none", before |-> NoFile]

\* CSVHandler.append_records(records, filepath): nothing for an empty list;
\* otherwise the frame is appended, with a header when the path is no file; an
\* exception of to_csv is logged and raised again, the path untouched or
\* already created by the open
CvAppend ==
    /\ cv.pc = "on"
    /\ cv.calls < MaxCsvCalls
    /\ \E records \in UNION { [1..n -> CsvRecords] : n \in 0..MaxCsvRecords },
          outcome \in {"ok", "raise_before_open", "raise_after_open"} :
          LET c == [cv EXCEPT !.calls = @ + 1, !.before = cv.file]
              old == IF isfile(cv.file) THEN cv.file ELSE <<>>
          IN  IF records = <<>>
              THEN cv' = [c EXCEPT !.last = "empty"]
              ELSE CASE outcome = "ok" ->
                          cv' = [c EXCEPT
                                   !.file = old \o ToCsv(records, HeaderWanted(isfile(cv.file))),
                                   !.appended = @ \o records, !.last = "returned"]
                     [] outcome = "raise_after_open" ->
                          cv' = [c EXCEPT !.file = old, !.last = "raised"]
                     [] OTHER -> cv' = [c EXCEPT !.last = "raised"]
    /\ UNCHANGED <<core, etl, tf, rc, yt, bs, rt>>

NextCsv == CvAppend

InitCsv == IdleCore /\ IdleEtl /\ IdleTf /\ IdleRc /\ IdleYt /\ IdleBs /\ IdleRt /\ InitCv

SpecCsv == InitCsv /\ [][NextCsv]_vars

\* the line holds the record under the header: a cell per column, each the
\* record's value for that column, and no key of the record without a column
LineHolds(line, header, r) ==
    /\ line.kind = "row"
    /\ Len(line.cells) = Len(header.cells)
    /\ \A i \in 1..Len(header.cells) : line.cells[i] = Cell(r, header.cells[i])
    /\ \A k \in 1..Len(r.keys) : \E i \in 1..Len(header.cells) : header.cells[i] = r.keys[k]

\* C40: after any sequence of calls the file is one header line followed by one
\* line per appended record, in call order, each holding its record; calls that
\* appended nothing have left no file; and a call with an empty list leaves the
\* path as it was.
C40_OneHeaderThenEveryRecord ==
    /\ cv.appended = <<>> => ~isfile(cv.file)
    /\ cv.appended # <<>> =>
          /\ Len(cv.file) = 1 + Len(cv.appended)
          /\ cv.file[1].kind = "header"
          /\ \A i \in 1..Len(cv.appended) :
                LineHolds(cv.file[i + 1], cv.file[1], cv.appended[i])
    /\ cv.last = "empty" => cv.file = cv.before

============================================================================
